---- MODULE Spec2Model ----
(***************************************************************************)
(* A model of the squinn WebTransport server (src/server_wtransport): the  *)
(* WebTransport handshake state machine (webtransport/request), the        *)
(* Session datagram API and transmit pump (session.rs), the Outbound queue *)
(* (outbound.rs) and the Server facade (server.rs).                        *)
(*                                                                         *)
(* The QUIC connection and endpoint (quinn_proto) and the HTTP/3 codec     *)
(* (web_transport_proto) are libraries outside the repository.  They are   *)
(* modelled by what the repository's code observes of them:                *)
(*   - a connection holds, per stream, the chunks that arrived and were    *)
(*     not read yet, a send credit (flow control), the queue of received   *)
(*     datagrams, the packets waiting for poll_transmit and the endpoint   *)
(*     events waiting for poll_endpoint_events;                            *)
(*   - QUIC variable-length integers are decoded and encoded as RFC 9000   *)
(*     section 16 defines them;                                            *)
(*   - the HTTP/3 frames keep their layout (varint type, varint length,    *)
(*     payload) with one-byte identifiers in place of the real ones.       *)
(***************************************************************************)
EXTENDS Integers, Sequences, FiniteSets, TLC

VARIABLES
    connections,      \* Server.connections: ConnectionHandle -> Session
    outbound,         \* Server.outbound: the queue of (Transmit, payload)
    buf,              \* Server.buf: the shared scratch buffer
    endpoint_events,  \* Server.endpoint_events: pending (handle, event) pairs
    last,             \* what the last call was, on what, and what it returned
    panicked,         \* a debug assertion or a slice bound has failed
    build,            \* "debug" (debug assertions on) or "release"
    now,              \* the monotonic clock (Instant::now())
    loop,             \* the event loop of main: where it is, and its locals
    connection_events \* src/server: the connection events queued per handle

vars == <<connections, outbound, buf, endpoint_events, last, panicked, build,
          now, loop, connection_events>>

\* the clock, the event loop and the event queues of the simpler server,
\* which the calls on the server leave alone
loopvars == <<now, loop, connection_events>>

(***************************************************************************)
(* Bounds of the model.                                                    *)
(***************************************************************************)
\* chunks, datagrams and endpoint events that may wait in the connections
MaxInFlight == 1
\* packets waiting for poll_transmit plus entries of the outbound queue, where
\* the transmit pump is under load
MaxQueued == 36
\* the packets at the head of a connection's queue whose sizes may differ
MixedPackets == 2
\* the largest send credit a connection accumulates
MaxCredit == 8
\* packets waiting for poll_transmit plus entries of the outbound queue
MaxOutbound == 2
\* the same, where several connections run side by side
MaxPackets == 1
\* responses the application may start for one request
MaxResponds == 2

Handles == {1, 2}

None == <<>>
Some(x) == <<x>>
IsSome(o) == o # <<>>
Unwrap(o) == o[1]

Min(a, b) == IF a < b THEN a ELSE b

(***************************************************************************)
(* QUIC variable-length integers (quinn_proto::VarInt).                    *)
(***************************************************************************)
RECURSIVE BigEndian(_)
BigEndian(s) ==
    IF s = <<>> THEN 0
    ELSE 256 * BigEndian(SubSeq(s, 1, Len(s) - 1)) + s[Len(s)]

\* The two top bits of the first byte give the length: 1, 2, 4 or 8 bytes.
VarIntSize(b0) == 2 ^ (b0 \div 64)

\* VarInt::decode: the value and the number of bytes read, or UnexpectedEnd.
\* A value need not be encoded on the fewest bytes.
VarIntDecode(s) ==
    IF s = <<>> THEN [ok |-> FALSE]
    ELSE LET n == VarIntSize(s[1])
         IN  IF Len(s) < n THEN [ok |-> FALSE]
             ELSE [ok |-> TRUE,
                   value |-> BigEndian(<<s[1] % 64>> \o SubSeq(s, 2, n)),
                   pos |-> n]

\* VarInt::encode: the shortest encoding (values below 2^30 in this model).
VarIntEncode(x) ==
    IF x < 64 THEN <<x>>
    ELSE IF x < 16384 THEN <<64 + (x \div 256), x % 256>>
    ELSE <<128 + (x \div 16777216), (x \div 65536) % 256,
           (x \div 256) % 256, x % 256>>

After(s, n) == SubSeq(s, n + 1, Len(s))

IsPrefix(p, s) == Len(p) <= Len(s) /\ SubSeq(s, 1, Len(p)) = p

(***************************************************************************)
(* The HTTP/3 codec (web_transport_proto), with one-byte identifiers.      *)
(*   SETTINGS on the control stream: stream type 0, frame type 4, length,  *)
(*     then (identifier, value) pairs.                                     *)
(*   CONNECT request: frame type 1 (HEADERS), length, then method,         *)
(*     protocol and url.                                                   *)
(*   CONNECT response: frame type 1 (HEADERS), length, then the status.    *)
(***************************************************************************)
\* the identifier of the enable_webtransport setting (one byte in the model)
ENABLE_WEBTRANSPORT == 43

\* Frame::read: type, length and the whole payload, or not enough bytes.
FrameRead(s) ==
    LET t == VarIntDecode(s)
    IN  IF ~t.ok THEN [ok |-> FALSE]
        ELSE LET n == VarIntDecode(After(s, t.pos))
             IN  IF ~n.ok THEN [ok |-> FALSE]
                 ELSE LET body == After(s, t.pos + n.pos)
                      IN  IF Len(body) < n.value THEN [ok |-> FALSE]
                          ELSE [ok |-> TRUE, typ |-> t.value,
                                payload |-> SubSeq(body, 1, n.value)]

\* The (identifier, value) pairs of a SETTINGS payload; <<"bad">> when a pair
\* is cut short.
RECURSIVE SettingsPairs(_)
SettingsPairs(p) ==
    IF p = <<>> THEN <<>>
    ELSE LET id == VarIntDecode(p)
         IN  IF ~id.ok THEN <<"bad">>
             ELSE LET v == VarIntDecode(After(p, id.pos))
                  IN  IF ~v.ok THEN <<"bad">>
                      ELSE LET rest == SettingsPairs(After(p, id.pos + v.pos))
                           IN  IF rest = <<"bad">> THEN rest
                               ELSE <<<<id.value, v.value>>>> \o rest

\* Settings::supports_webtransport: the value of the setting, 0 when absent.
RECURSIVE SupportsWebTransport(_)
SupportsWebTransport(pairs) ==
    IF pairs = <<>> THEN 0
    ELSE IF pairs[Len(pairs)][1] = ENABLE_WEBTRANSPORT THEN pairs[Len(pairs)][2]
    ELSE SupportsWebTransport(SubSeq(pairs, 1, Len(pairs) - 1))

\* Settings::decode of the bytes received so far.
SettingsDecode(s) ==
    LET st == VarIntDecode(s)
    IN  IF ~st.ok THEN [res |-> "UnexpectedEnd"]
        ELSE IF st.value # 0 THEN [res |-> "UnexpectedStreamType"]
        ELSE LET f == FrameRead(After(s, st.pos))
             IN  IF ~f.ok THEN [res |-> "UnexpectedEnd"]
                 ELSE IF f.typ # 4 THEN [res |-> "UnexpectedFrame"]
                 ELSE LET pairs == SettingsPairs(f.payload)
                      IN  IF pairs = <<"bad">> THEN [res |-> "InvalidSize"]
                          ELSE [res |-> "Ok",
                                supports_webtransport |-> SupportsWebTransport(pairs)]

\* Settings::encode with enable_webtransport(v).
SettingsEncode(v) ==
    LET payload == VarIntEncode(ENABLE_WEBTRANSPORT) \o VarIntEncode(v)
    IN  <<0, 4>> \o VarIntEncode(Len(payload)) \o payload

\* The frame the server sends, encoded once.
SETTINGS_ENCODED == SettingsEncode(1)

\* ConnectRequest::decode of the bytes received so far: method 1 is CONNECT,
\* protocol 1 is webtransport.
ConnectDecode(s) ==
    LET f == FrameRead(s)
    IN  IF ~f.ok THEN [res |-> "UnexpectedEnd"]
        ELSE IF f.typ # 1 THEN [res |-> "UnexpectedFrame"]
        ELSE IF Len(f.payload) < 3 THEN [res |-> "QpackError"]
        ELSE IF f.payload[1] # 1 THEN [res |-> "WrongMethod"]
        ELSE IF f.payload[2] # 1 THEN [res |-> "WrongProtocol"]
        ELSE [res |-> "Ok", url |-> f.payload[3]]

\* ConnectRequest::encode, as the peer does it.
ConnectEncode(method, protocol, url) ==
    <<1>> \o VarIntEncode(3) \o <<method, protocol, url>>

\* ConnectResponse { status }.encode: the status is one byte in the model.
ResponseEncode(status) == <<1>> \o VarIntEncode(1) \o <<status>>

(***************************************************************************)
(* The QUIC connection (quinn_proto::Connection) as the server's code sees *)
(* it.  The first client-initiated unidirectional stream carries the       *)
(* peer's SETTINGS, the first client-initiated bidirectional stream its    *)
(* CONNECT request, the first server-initiated unidirectional stream the   *)
(* server's SETTINGS.                                                      *)
(***************************************************************************)
\* StreamId: index, direction (0 bidirectional, 1 unidirectional), initiator
\* (0 client, 1 server).
StreamId(initiator, dir, index) == 4 * index + 2 * dir + initiator

\* Endpoint::accept: the connection as it is handed to the server.
ConnectionNew(addr, uni_allowed, credit, dg_max) ==
    [ drained |-> FALSE,
      uni_in  |-> [open |-> FALSE, accepted |-> FALSE, stopped |-> FALSE,
                   sent |-> <<>>, q |-> <<>>],
      bi      |-> [open |-> FALSE, accepted |-> FALSE, stopped |-> FALSE,
                   sent |-> <<>>, q |-> <<>>, written |-> <<>>],
      uni_out |-> [allowed |-> uni_allowed, open |-> FALSE, finished |-> FALSE,
                   written |-> <<>>],
      credit  |-> credit,
      dg_in   |-> <<>>,
      dg_max  |-> dg_max,
      txq     |-> <<>>,
      events  |-> <<>>,
      timeout |-> None,
      addr    |-> addr ]

\* connection.streams().open(Dir::Uni)
StreamsOpenUni(c) ==
    IF c.uni_out.allowed /\ ~c.uni_out.open
    THEN [conn |-> [c EXCEPT !.uni_out.open = TRUE], id |-> Some(StreamId(1, 1, 0))]
    ELSE [conn |-> c, id |-> None]

\* connection.streams().accept(Dir::Uni)
StreamsAcceptUni(c) ==
    IF c.uni_in.open /\ ~c.uni_in.accepted
    THEN [conn |-> [c EXCEPT !.uni_in.accepted = TRUE], id |-> Some(StreamId(0, 1, 0))]
    ELSE [conn |-> c, id |-> None]

\* connection.streams().accept(Dir::Bi)
StreamsAcceptBi(c) ==
    IF c.bi.open /\ ~c.bi.accepted
    THEN [conn |-> [c EXCEPT !.bi.accepted = TRUE], id |-> Some(StreamId(0, 0, 0))]
    ELSE [conn |-> c, id |-> None]

\* The receive side of stream id.
RecvSide(c, id) == IF id = StreamId(0, 1, 0) THEN c.uni_in ELSE c.bi

\* recv_stream.read(true), .next(usize::MAX) and the two conversions around
\* them: a stopped stream cannot be read (UnexpectedEnd), a stream with
\* nothing buffered is Blocked (ReadError), else the next chunk is taken.
RecvRead(c, id) ==
    LET s == RecvSide(c, id)
    IN  IF s.stopped THEN [conn |-> c, err |-> "UnexpectedEnd", chunk |-> <<>>]
        ELSE IF s.q = <<>> THEN [conn |-> c, err |-> "ReadError", chunk |-> <<>>]
        ELSE [conn |-> IF id = StreamId(0, 1, 0)
                       THEN [c EXCEPT !.uni_in.q = Tail(@)]
                       ELSE [c EXCEPT !.bi.q = Tail(@)],
              err |-> "", chunk |-> Head(s.q)]

\* send_stream.write(data): as many bytes as the credit allows; Blocked
\* (WriteError) when there is data and no credit.
SendWrite(c, id, data) ==
    IF data = <<>> THEN [conn |-> c, err |-> "", n |-> 0]
    ELSE IF c.credit = 0 THEN [conn |-> c, err |-> "WriteError", n |-> 0]
    ELSE LET n == Min(c.credit, Len(data))
             c1 == [c EXCEPT !.credit = @ - n]
         IN  [conn |-> IF id = StreamId(1, 1, 0)
                       THEN [c1 EXCEPT !.uni_out.written = @ \o SubSeq(data, 1, n)]
                       ELSE [c1 EXCEPT !.bi.written = @ \o SubSeq(data, 1, n)],
              err |-> "", n |-> n]

\* close_send_stream: send_stream.finish()
CloseSendStream(c) == [c EXCEPT !.uni_out.finished = TRUE]

\* close_recv_stream: recv_stream.stop(0)
CloseRecvStream(c) == [c EXCEPT !.uni_in.stopped = TRUE, !.uni_in.q = <<>>]

(***************************************************************************)
(* The handshake state machine (webtransport/request).                     *)
(***************************************************************************)
SettingsNew ==
    [tag |-> "Settings", send_done |-> FALSE, recv_done |-> FALSE,
     send_id |-> None, recv_id |-> None, send_bytes |-> 0]

ConnectNew == [tag |-> "Connect", stream_id |-> None]

\* A faulty variant of Response::new, which keeps the id of the server's
\* control stream instead of the id it is given.
ResponseNewControlId(send_id) ==
    [tag |-> "Response", send_id |-> StreamId(1, 1, 0), send_bytes |-> 0]

ResponseNew(send_id) == [tag |-> "Response", send_id |-> send_id, send_bytes |-> 0]

\* Completed::new: the header is the varint encoding of the session id.
CompletedNew(session_id) ==
    [tag |-> "Completed", session_id |-> session_id,
     datagram_header |-> VarIntEncode(session_id)]

\* Request::new.  trace records every value the tagged state has been given.
RequestNew == [data_buf |-> <<>>, inner |-> SettingsNew, trace |-> <<"Settings">>]

\* A faulty variant of try_send, which writes the frame from its first byte
\* in every call.
SettingsTrySendFromStart(st, c) ==
    LET Write(st1, conn) ==
            LET Wrote(w) ==
                    IF w.err # ""
                    THEN [st |-> st1, conn |-> w.conn, err |-> w.err, done |-> FALSE]
                    ELSE IF st1.send_bytes + w.n >= Len(SETTINGS_ENCODED)
                    THEN [st |-> [st1 EXCEPT !.send_bytes = @ + w.n],
                          conn |-> CloseSendStream(w.conn), err |-> "", done |-> TRUE]
                    ELSE [st |-> [st1 EXCEPT !.send_bytes = @ + w.n],
                          conn |-> w.conn, err |-> "", done |-> FALSE]
            IN  Wrote(SendWrite(conn, Unwrap(st1.send_id), SETTINGS_ENCODED))
        Opened(o) ==
            IF o.id = None
            THEN [st |-> st, conn |-> o.conn, err |-> "", done |-> FALSE]
            ELSE Write([st EXCEPT !.send_id = o.id], o.conn)
    IN  Opened(IF st.send_id = None THEN StreamsOpenUni(c)
               ELSE [conn |-> c, id |-> st.send_id])

\* Settings::try_send
SettingsTrySend(st, c) ==
    LET Write(st1, conn) ==
            LET Wrote(w) ==
                    IF w.err # ""
                    THEN [st |-> st1, conn |-> w.conn, err |-> w.err, done |-> FALSE]
                    ELSE IF st1.send_bytes + w.n >= Len(SETTINGS_ENCODED)
                    THEN [st |-> [st1 EXCEPT !.send_bytes = @ + w.n],
                          conn |-> CloseSendStream(w.conn), err |-> "", done |-> TRUE]
                    ELSE [st |-> [st1 EXCEPT !.send_bytes = @ + w.n],
                          conn |-> w.conn, err |-> "", done |-> FALSE]
            IN  Wrote(SendWrite(conn, Unwrap(st1.send_id),
                                After(SETTINGS_ENCODED, st1.send_bytes)))
        Opened(o) ==
            IF o.id = None
            THEN [st |-> st, conn |-> o.conn, err |-> "", done |-> FALSE]
            ELSE Write([st EXCEPT !.send_id = o.id], o.conn)
    IN  Opened(IF st.send_id = None THEN StreamsOpenUni(c)
               ELSE [conn |-> c, id |-> st.send_id])

\* A faulty variant of try_recv, which does not look at what the decoded
\* settings support.
SettingsTryRecvAnySupport(st, c, recv_buf) ==
    LET Decoded(st1, conn, b, d) ==
            IF d.res = "UnexpectedEnd"
            THEN [st |-> st1, conn |-> conn, buf |-> b, err |-> "", done |-> FALSE]
            ELSE IF d.res # "Ok"
            THEN [st |-> st1, conn |-> conn, buf |-> b, err |-> "SettingsError",
                  done |-> FALSE]
            ELSE [st |-> st1, conn |-> CloseRecvStream(conn), buf |-> b,
                  err |-> "", done |-> TRUE]
        Read(st1, r) ==
            IF r.err # ""
            THEN [st |-> st1, conn |-> r.conn, buf |-> recv_buf, err |-> r.err,
                  done |-> FALSE]
            ELSE Decoded(st1, r.conn, recv_buf \o r.chunk,
                         SettingsDecode(recv_buf \o r.chunk))
        Accepted(a) ==
            IF a.id = None
            THEN [st |-> st, conn |-> a.conn, buf |-> recv_buf, err |-> "",
                  done |-> FALSE]
            ELSE Read([st EXCEPT !.recv_id = a.id], RecvRead(a.conn, Unwrap(a.id)))
    IN  Accepted(IF st.recv_id = None THEN StreamsAcceptUni(c)
                 ELSE [conn |-> c, id |-> st.recv_id])

\* A faulty variant of try_recv, which marks the receive half done although
\* the peer's settings do not support WebTransport.
SettingsTryRecvMarksDone(st, c, recv_buf) ==
    LET Decoded(st1, conn, b, d) ==
            IF d.res = "UnexpectedEnd"
            THEN [st |-> st1, conn |-> conn, buf |-> b, err |-> "", done |-> FALSE]
            ELSE IF d.res # "Ok"
            THEN [st |-> st1, conn |-> conn, buf |-> b, err |-> "SettingsError",
                  done |-> FALSE]
            ELSE IF d.supports_webtransport = 0
            THEN [st |-> [st1 EXCEPT !.recv_done = TRUE],
                  conn |-> CloseRecvStream(conn), buf |-> b,
                  err |-> "WebTransportUnsupported", done |-> FALSE]
            ELSE [st |-> st1, conn |-> CloseRecvStream(conn), buf |-> b,
                  err |-> "", done |-> TRUE]
        Read(st1, r) ==
            IF r.err # ""
            THEN [st |-> st1, conn |-> r.conn, buf |-> recv_buf, err |-> r.err,
                  done |-> FALSE]
            ELSE Decoded(st1, r.conn, recv_buf \o r.chunk,
                         SettingsDecode(recv_buf \o r.chunk))
        Accepted(a) ==
            IF a.id = None
            THEN [st |-> st, conn |-> a.conn, buf |-> recv_buf, err |-> "",
                  done |-> FALSE]
            ELSE Read([st EXCEPT !.recv_id = a.id], RecvRead(a.conn, Unwrap(a.id)))
    IN  Accepted(IF st.recv_id = None THEN StreamsAcceptUni(c)
                 ELSE [conn |-> c, id |-> st.recv_id])

\* Settings::try_recv
SettingsTryRecv(st, c, recv_buf) ==
    LET Decoded(st1, conn, b, d) ==
            IF d.res = "UnexpectedEnd"
            THEN [st |-> st1, conn |-> conn, buf |-> b, err |-> "", done |-> FALSE]
            ELSE IF d.res # "Ok"
            THEN [st |-> st1, conn |-> conn, buf |-> b, err |-> "SettingsError",
                  done |-> FALSE]
            ELSE IF d.supports_webtransport = 0
            THEN [st |-> st1, conn |-> CloseRecvStream(conn), buf |-> b,
                  err |-> "WebTransportUnsupported", done |-> FALSE]
            ELSE [st |-> st1, conn |-> CloseRecvStream(conn), buf |-> b,
                  err |-> "", done |-> TRUE]
        Read(st1, r) ==
            IF r.err # ""
            THEN [st |-> st1, conn |-> r.conn, buf |-> recv_buf, err |-> r.err,
                  done |-> FALSE]
            ELSE Decoded(st1, r.conn, recv_buf \o r.chunk,
                         SettingsDecode(recv_buf \o r.chunk))
        Accepted(a) ==
            IF a.id = None
            THEN [st |-> st, conn |-> a.conn, buf |-> recv_buf, err |-> "",
                  done |-> FALSE]
            ELSE Read([st EXCEPT !.recv_id = a.id], RecvRead(a.conn, Unwrap(a.id)))
    IN  Accepted(IF st.recv_id = None THEN StreamsAcceptUni(c)
                 ELSE [conn |-> c, id |-> st.recv_id])

\* A faulty variant of Settings::update, which reports completion when
\* either half is done.
SettingsUpdateEitherHalf(st, c, recv_buf) ==
    LET Received(r) ==
            IF r.err # ""
            THEN [st |-> r.st, conn |-> r.conn, buf |-> r.buf, err |-> r.err,
                  done |-> FALSE]
            ELSE [st |-> [r.st EXCEPT !.recv_done = r.done], conn |-> r.conn,
                  buf |-> r.buf, err |-> "", done |-> r.st.send_done \/ r.done]
        Recv(st1, conn) ==
            Received(IF st1.recv_done
                     THEN [st |-> st1, conn |-> conn, buf |-> recv_buf, err |-> "",
                           done |-> TRUE]
                     ELSE SettingsTryRecv(st1, conn, recv_buf))
        Sent(s) ==
            IF s.err # ""
            THEN [st |-> s.st, conn |-> s.conn, buf |-> recv_buf, err |-> s.err,
                  done |-> FALSE]
            ELSE Recv([s.st EXCEPT !.send_done = s.done], s.conn)
    IN  Sent(IF st.send_done
             THEN [st |-> st, conn |-> c, err |-> "", done |-> TRUE]
             ELSE SettingsTrySend(st, c))

\* Settings::update: the send half, then the receive half; an error of a
\* half returns at once and keeps what was assigned before it.
SettingsUpdate(st, c, recv_buf) ==
    LET Received(r) ==
            IF r.err # ""
            THEN [st |-> r.st, conn |-> r.conn, buf |-> r.buf, err |-> r.err,
                  done |-> FALSE]
            ELSE [st |-> [r.st EXCEPT !.recv_done = r.done], conn |-> r.conn,
                  buf |-> r.buf, err |-> "", done |-> r.st.send_done /\ r.done]
        Recv(st1, conn) ==
            Received(IF st1.recv_done
                     THEN [st |-> st1, conn |-> conn, buf |-> recv_buf, err |-> "",
                           done |-> TRUE]
                     ELSE SettingsTryRecv(st1, conn, recv_buf))
        Sent(s) ==
            IF s.err # ""
            THEN [st |-> s.st, conn |-> s.conn, buf |-> recv_buf, err |-> s.err,
                  done |-> FALSE]
            ELSE Recv([s.st EXCEPT !.send_done = s.done], s.conn)
    IN  Sent(IF st.send_done
             THEN [st |-> st, conn |-> c, err |-> "", done |-> TRUE]
             ELSE SettingsTrySend(st, c))

\* A faulty variant of Connect::update, which decodes each chunk on its own
\* and keeps only the last one.
ConnectUpdateLastChunk(st, c, recv_buf) ==
    LET Decoded(st1, conn, b, d) ==
            IF d.res = "UnexpectedEnd"
            THEN [st |-> st1, conn |-> conn, buf |-> b, err |-> "", out |-> None]
            ELSE IF d.res # "Ok"
            THEN [st |-> st1, conn |-> conn, buf |-> b, err |-> "ConnectError",
                  out |-> None]
            ELSE [st |-> st1, conn |-> conn, buf |-> b, err |-> "",
                  out |-> Some(<<d.url, Unwrap(st1.stream_id)>>)]
        Read(st1, r) ==
            IF r.err # ""
            THEN [st |-> st1, conn |-> r.conn, buf |-> recv_buf, err |-> r.err,
                  out |-> None]
            ELSE Decoded(st1, r.conn, r.chunk, ConnectDecode(r.chunk))
        Accepted(a) ==
            IF a.id = None
            THEN [st |-> st, conn |-> a.conn, buf |-> recv_buf, err |-> "",
                  out |-> None]
            ELSE Read([st EXCEPT !.stream_id = a.id], RecvRead(a.conn, Unwrap(a.id)))
    IN  Accepted(IF st.stream_id = None THEN StreamsAcceptBi(c)
                 ELSE [conn |-> c, id |-> st.stream_id])

\* A faulty variant of Connect::update, which accepts a stream in every call
\* and replaces the id it holds.
ConnectUpdateAcceptsAgain(st, c, recv_buf) ==
    LET Decoded(st1, conn, b, d) ==
            IF d.res = "UnexpectedEnd"
            THEN [st |-> st1, conn |-> conn, buf |-> b, err |-> "", out |-> None]
            ELSE IF d.res # "Ok"
            THEN [st |-> st1, conn |-> conn, buf |-> b, err |-> "ConnectError",
                  out |-> None]
            ELSE [st |-> st1, conn |-> conn, buf |-> b, err |-> "",
                  out |-> Some(<<d.url, Unwrap(st1.stream_id)>>)]
        Read(st1, r) ==
            IF r.err # ""
            THEN [st |-> st1, conn |-> r.conn, buf |-> recv_buf, err |-> r.err,
                  out |-> None]
            ELSE Decoded(st1, r.conn, recv_buf \o r.chunk,
                         ConnectDecode(recv_buf \o r.chunk))
        Accepted(a) ==
            IF a.id = None
            THEN [st |-> [st EXCEPT !.stream_id = None], conn |-> a.conn,
                  buf |-> recv_buf, err |-> "", out |-> None]
            ELSE Read([st EXCEPT !.stream_id = a.id], RecvRead(a.conn, Unwrap(a.id)))
    IN  Accepted(StreamsAcceptBi(c))

\* Connect::update
ConnectUpdate(st, c, recv_buf) ==
    LET Decoded(st1, conn, b, d) ==
            IF d.res = "UnexpectedEnd"
            THEN [st |-> st1, conn |-> conn, buf |-> b, err |-> "", out |-> None]
            ELSE IF d.res # "Ok"
            THEN [st |-> st1, conn |-> conn, buf |-> b, err |-> "ConnectError",
                  out |-> None]
            ELSE [st |-> st1, conn |-> conn, buf |-> b, err |-> "",
                  out |-> Some(<<d.url, Unwrap(st1.stream_id)>>)]
        Read(st1, r) ==
            IF r.err # ""
            THEN [st |-> st1, conn |-> r.conn, buf |-> recv_buf, err |-> r.err,
                  out |-> None]
            ELSE Decoded(st1, r.conn, recv_buf \o r.chunk,
                         ConnectDecode(recv_buf \o r.chunk))
        Accepted(a) ==
            IF a.id = None
            THEN [st |-> st, conn |-> a.conn, buf |-> recv_buf, err |-> "",
                  out |-> None]
            ELSE Read([st EXCEPT !.stream_id = a.id], RecvRead(a.conn, Unwrap(a.id)))
    IN  Accepted(IF st.stream_id = None THEN StreamsAcceptBi(c)
                 ELSE [conn |-> c, id |-> st.stream_id])

\* A faulty variant of Response::update, which reports the response as sent
\* after the first write that accepted anything.
ResponseUpdateFirstWrite(st, c, data_buf) ==
    LET Wrote(w) ==
            IF w.err # ""
            THEN [st |-> st, conn |-> w.conn, err |-> w.err, out |-> None]
            ELSE [st |-> [st EXCEPT !.send_bytes = @ + w.n], conn |-> w.conn,
                  err |-> "", out |-> Some(st.send_id)]
    IN  IF data_buf # <<>>
        THEN Wrote(SendWrite(c, st.send_id, After(data_buf, st.send_bytes)))
        ELSE [st |-> st, conn |-> c, err |-> "", out |-> None]

\* Response::update
ResponseUpdate(st, c, data_buf) ==
    LET Wrote(w) ==
            IF w.err # ""
            THEN [st |-> st, conn |-> w.conn, err |-> w.err, out |-> None]
            ELSE IF st.send_bytes + w.n >= Len(data_buf)
            THEN [st |-> [st EXCEPT !.send_bytes = @ + w.n], conn |-> w.conn,
                  err |-> "", out |-> Some(st.send_id)]
            ELSE [st |-> [st EXCEPT !.send_bytes = @ + w.n], conn |-> w.conn,
                  err |-> "", out |-> None]
    IN  IF data_buf # <<>>
        THEN Wrote(SendWrite(c, st.send_id, After(data_buf, st.send_bytes)))
        ELSE [st |-> st, conn |-> c, err |-> "", out |-> None]

\* The three blocks of Request::update, in the order the code runs them.
\* Each returns the request, the connection, the RequestState or the error
\* returned (res) and its argument (arg).
UpdateResponse(req, c) ==
    LET Then(u) ==
            IF u.err # ""
            THEN [req |-> [req EXCEPT !.inner = u.st], conn |-> u.conn,
                  res |-> u.err, arg |-> None]
            ELSE IF IsSome(u.out)
            THEN [req |-> [data_buf |-> <<>>,
                           inner |-> CompletedNew(Unwrap(u.out)),
                           trace |-> Append(req.trace, "Completed")],
                  conn |-> u.conn, res |-> "ResponseSent", arg |-> u.out]
            ELSE [req |-> [req EXCEPT !.inner = u.st], conn |-> u.conn,
                  res |-> "Waiting", arg |-> None]
    IN  Then(ResponseUpdate(req.inner, c, req.data_buf))

\* A faulty variant of the Connect block, which leaves the request's bytes
\* in data_buf when it moves to Response.
UpdateConnectKeepsBuffer(req, c) ==
    LET Then(u) ==
            IF u.err # ""
            THEN [req |-> [req EXCEPT !.inner = u.st, !.data_buf = u.buf],
                  conn |-> u.conn, res |-> u.err, arg |-> None]
            ELSE IF IsSome(u.out)
            THEN [req |-> [data_buf |-> u.buf,
                           inner |-> ResponseNew(Unwrap(u.out)[2]),
                           trace |-> Append(req.trace, "Response")],
                  conn |-> u.conn, res |-> "ConnectData",
                  arg |-> Some(Unwrap(u.out)[1])]
            ELSE [req |-> [req EXCEPT !.inner = u.st, !.data_buf = u.buf],
                  conn |-> u.conn, res |-> "Waiting", arg |-> None]
    IN  Then(ConnectUpdate(req.inner, c, req.data_buf))

UpdateConnect(req, c) ==
    LET Then(u) ==
            IF u.err # ""
            THEN [req |-> [req EXCEPT !.inner = u.st, !.data_buf = u.buf],
                  conn |-> u.conn, res |-> u.err, arg |-> None]
            ELSE IF IsSome(u.out)
            THEN [req |-> [data_buf |-> <<>>,
                           inner |-> ResponseNew(Unwrap(u.out)[2]),
                           trace |-> Append(req.trace, "Response")],
                  conn |-> u.conn, res |-> "ConnectData",
                  arg |-> Some(Unwrap(u.out)[1])]
            ELSE [req |-> [req EXCEPT !.inner = u.st, !.data_buf = u.buf],
                  conn |-> u.conn, res |-> "Waiting", arg |-> None]
    IN  Then(ConnectUpdate(req.inner, c, req.data_buf))

\* A faulty variant of the Settings block, which goes straight to Response
\* when both halves are done.
UpdateSettingsSkipsConnect(req, c) ==
    LET Then(u) ==
            IF u.err # ""
            THEN [req |-> [req EXCEPT !.inner = u.st, !.data_buf = u.buf],
                  conn |-> u.conn, res |-> u.err, arg |-> None]
            ELSE IF u.done
            THEN [req |-> [data_buf |-> <<>>,
                           inner |-> ResponseNew(StreamId(0, 0, 0)),
                           trace |-> Append(req.trace, "Response")],
                  conn |-> u.conn, res |-> "Waiting", arg |-> None]
            ELSE [req |-> [req EXCEPT !.inner = u.st, !.data_buf = u.buf],
                  conn |-> u.conn, res |-> "Waiting", arg |-> None]
    IN  Then(SettingsUpdate(req.inner, c, req.data_buf))

\* A faulty variant of the Settings block, which forgets the bytes it has
\* read when the frame is not yet whole.
UpdateSettingsForgetsChunks(req, c) ==
    LET Then(u) ==
            IF u.err # ""
            THEN [req |-> [req EXCEPT !.inner = u.st, !.data_buf = u.buf],
                  conn |-> u.conn, res |-> u.err, arg |-> None]
            ELSE IF u.done
            THEN UpdateConnect([data_buf |-> <<>>, inner |-> ConnectNew,
                                trace |-> Append(req.trace, "Connect")], u.conn)
            ELSE [req |-> [req EXCEPT !.inner = u.st, !.data_buf = <<>>],
                  conn |-> u.conn, res |-> "Waiting", arg |-> None]
    IN  Then(SettingsUpdate(req.inner, c, req.data_buf))

UpdateSettings(req, c) ==
    LET Then(u) ==
            IF u.err # ""
            THEN [req |-> [req EXCEPT !.inner = u.st, !.data_buf = u.buf],
                  conn |-> u.conn, res |-> u.err, arg |-> None]
            ELSE IF u.done
            THEN UpdateConnect([data_buf |-> <<>>, inner |-> ConnectNew,
                                trace |-> Append(req.trace, "Connect")], u.conn)
            ELSE [req |-> [req EXCEPT !.inner = u.st, !.data_buf = u.buf],
                  conn |-> u.conn, res |-> "Waiting", arg |-> None]
    IN  Then(SettingsUpdate(req.inner, c, req.data_buf))

\* Request::update
RequestUpdate(req, c) ==
    CASE req.inner.tag = "Completed" ->
            [req |-> req, conn |-> c, res |-> "Completed", arg |-> None]
      [] req.inner.tag = "Settings" -> UpdateSettings(req, c)
      [] req.inner.tag = "Connect" -> UpdateConnect(req, c)
      [] req.inner.tag = "Response" -> UpdateResponse(req, c)

\* What update returns when it fails.
UpdateErrors ==
    {"UnexpectedEnd", "WebTransportUnsupported", "ReadError", "WriteError",
     "SettingsError", "ConnectError"}

\* Response::start_response: the debug assertion, then the response is
\* appended to data_buf.
StartResponse(data_buf, status, debug) ==
    IF debug /\ data_buf # <<>>
    THEN [buf |-> data_buf, panic |-> TRUE]
    ELSE [buf |-> data_buf \o ResponseEncode(status), panic |-> FALSE]

\* A faulty variant of respond, which starts the response in any state.
RequestRespondAnyState(req, status, debug) ==
    LET Started(r) ==
            [req |-> [req EXCEPT !.data_buf = r.buf],
             res |-> IF r.panic THEN "panic" ELSE "Ok", panic |-> r.panic]
    IN  Started(StartResponse(req.data_buf, status, debug))

\* Request::respond
RequestRespond(req, status, debug) ==
    LET Started(r) ==
            [req |-> [req EXCEPT !.data_buf = r.buf],
             res |-> IF r.panic THEN "panic" ELSE "Ok", panic |-> r.panic]
    IN  IF req.inner.tag = "Response"
        THEN Started(StartResponse(req.data_buf, status, debug))
        ELSE [req |-> req, res |-> "NotReadyToRespond", panic |-> FALSE]

(***************************************************************************)
(* The outbound queue (outbound.rs; push_transmit in server.rs is the same *)
(* code on a Vec).                                                         *)
(***************************************************************************)
\* A faulty variant of the loop, whose entries copy the whole transmit.
RECURSIVE SplitSegmentsCopiesTransmit(_, _, _)
SplitSegmentsCopiesTransmit(transmit, segment_size, buffer) ==
    IF buffer = <<>> THEN <<>>
    ELSE LET end == Min(segment_size, Len(buffer))
         IN  <<[transmit |-> transmit, payload |-> SubSeq(buffer, 1, end)]>>
             \o SplitSegmentsCopiesTransmit(transmit, segment_size,
                                            After(buffer, end))

\* A faulty variant of the loop, which stops when less than a whole segment
\* is left.
RECURSIVE SplitSegmentsWholeOnly(_, _, _)
SplitSegmentsWholeOnly(transmit, segment_size, buffer) ==
    IF Len(buffer) < segment_size THEN <<>>
    ELSE LET contents == SubSeq(buffer, 1, segment_size)
         IN  <<[transmit |-> [destination |-> transmit.destination,
                              size |-> Len(contents),
                              ecn |-> transmit.ecn,
                              segment_size |-> None,
                              src_ip |-> transmit.src_ip],
                payload |-> contents]>>
             \o SplitSegmentsWholeOnly(transmit, segment_size,
                                       After(buffer, segment_size))

\* The while loop of push: the buffer is cut into slices of segment_size
\* bytes, the last one possibly shorter.
RECURSIVE SplitSegments(_, _, _)
SplitSegments(transmit, segment_size, buffer) ==
    IF buffer = <<>> THEN <<>>
    ELSE LET end == Min(segment_size, Len(buffer))
             contents == SubSeq(buffer, 1, end)
         IN  <<[transmit |-> [destination |-> transmit.destination,
                              size |-> Len(contents),
                              ecn |-> transmit.ecn,
                              segment_size |-> None,
                              src_ip |-> transmit.src_ip],
                payload |-> contents]>>
             \o SplitSegments(transmit, segment_size, After(buffer, end))

\* A faulty variant of push, which takes the payload after the scratch
\* buffer was cleared.
PushEntriesAfterClear(transmit, scratch) ==
    IF transmit.segment_size = None
    THEN <<[transmit |-> transmit, payload |-> <<>>]>>
    ELSE SplitSegments(transmit, Unwrap(transmit.segment_size), <<>>)

\* Outbound::push: the entries appended for transmit, whose bytes are
\* scratch[..transmit.size].  The caller's scratch is empty afterwards.
PushEntries(transmit, scratch) ==
    LET buffer == SubSeq(scratch, 1, transmit.size)
    IN  IF transmit.segment_size = None
        THEN <<[transmit |-> transmit, payload |-> buffer]>>
        ELSE SplitSegments(transmit, Unwrap(transmit.segment_size), buffer)

Push(queue, transmit, scratch) == queue \o PushEntries(transmit, scratch)

(***************************************************************************)
(* Session (session.rs).                                                   *)
(***************************************************************************)
MAX_DATAGRAMS == 10
MAX_TRANSMIT_OPS == 3

\* How many of the waiting packets one poll_transmit batches: the packets of
\* a batch have the size of the first, the last one may be shorter.
RECURSIVE BatchCount(_, _, _)
BatchCount(txq, size, max) ==
    IF txq = <<>> \/ max = 0 \/ Len(Head(txq)) > size THEN 0
    ELSE IF Len(Head(txq)) < size THEN 1
    ELSE 1 + BatchCount(Tail(txq), size, max - 1)

RECURSIVE Concat(_)
Concat(ss) == IF ss = <<>> THEN <<>> ELSE Head(ss) \o Concat(Tail(ss))

\* connection.poll_transmit(now, max_datagrams, buf): the bytes are appended
\* to buf; segment_size is set when more than one datagram was batched.
PollTransmit(c, max_datagrams, scratch) ==
    IF c.drained \/ c.txq = <<>>
    THEN [conn |-> c, transmit |-> None, buf |-> scratch]
    ELSE LET n == BatchCount(c.txq, Len(Head(c.txq)), max_datagrams)
             bytes == Concat(SubSeq(c.txq, 1, n))
         IN  [conn |-> [c EXCEPT !.txq = After(@, n)],
              transmit |-> Some([destination |-> c.addr,
                                 size |-> Len(bytes),
                                 ecn |-> None,
                                 segment_size |-> IF n = 1 THEN None
                                                  ELSE Some(Len(Head(c.txq))),
                                 src_ip |-> None]),
              buf |-> scratch \o bytes]

\* connection.handle_timeout(now): when the idle (or drain) timer is due the
\* connection becomes drained, has no timer any more and reports it to the
\* endpoint.
HandleTimeout(c, due) ==
    IF due /\ ~c.drained
    THEN [c EXCEPT !.drained = TRUE, !.txq = <<>>, !.timeout = None,
                   !.events = Append(@, "Drained")]
    ELSE c

\* The handshake loop of Session::handle_process: update is called until it
\* returns Waiting, Completed or an error; ConnectData is answered with
\* respond(200).  results lists what the update calls returned.
RECURSIVE HandshakeLoop(_, _, _, _)
HandshakeLoop(req, c, debug, results) ==
    LET Responded(u, r) ==
            IF r.panic
            THEN [req |-> r.req, conn |-> u.conn,
                  results |-> Append(results, u.res), panic |-> TRUE]
            ELSE HandshakeLoop(r.req, u.conn, debug, Append(results, u.res))
        Updated(u) ==
            IF u.res = "ConnectData"
            THEN Responded(u, RequestRespond(u.req, 200, debug))
            ELSE IF u.res = "ResponseSent"
            THEN HandshakeLoop(u.req, u.conn, debug, Append(results, u.res))
            ELSE [req |-> u.req, conn |-> u.conn,
                  results |-> Append(results, u.res), panic |-> FALSE]
    IN  Updated(RequestUpdate(req, c))

\* The record of a call made inside a handler: its name and, for the calls
\* which are given the scratch buffer, the buffer as it was at the call.
PumpCall(op, scratch) == [op |-> op, buf |-> scratch]

\* A faulty clear, which leaves the buffer as it is.
BufClearNothing(scratch) == scratch

\* Vec::clear on the scratch buffer
BufClear(scratch) == <<>>

\* A faulty variant of the pump, which polls until nothing is left to
\* transmit.
RECURSIVE PumpUntilEmpty(_, _, _, _, _, _, _)
PumpUntilEmpty(c, queue, scratch, due, transmit_ops, polls, calls) ==
    LET Polled(p, cs) ==
            IF IsSome(p.transmit)
            THEN PumpUntilEmpty(HandleTimeout(p.conn, due),
                                Push(queue, Unwrap(p.transmit), p.buf),
                                BufClear(p.buf), due, transmit_ops + 1, polls + 1,
                                Append(cs, PumpCall("handle_timeout", None)))
            ELSE [conn |-> HandleTimeout(p.conn, due), outbound |-> queue,
                  buf |-> p.buf, polls |-> polls + 1,
                  calls |-> Append(cs, PumpCall("handle_timeout", None))]
    IN  Polled(PollTransmit(c, MAX_DATAGRAMS, scratch),
               Append(calls, PumpCall("poll_transmit", scratch)))

\* A faulty variant of the pump, which counts an empty poll as one more
\* transmit operation instead of ending the loop.
RECURSIVE PumpCountsIdlePolls(_, _, _, _, _, _, _)
PumpCountsIdlePolls(c, queue, scratch, due, transmit_ops, polls, calls) ==
    LET Next1(c1, q1, b1, ops, cs) ==
            IF ops >= MAX_TRANSMIT_OPS
            THEN [conn |-> c1, outbound |-> q1, buf |-> b1, polls |-> polls + 1,
                  calls |-> cs]
            ELSE PumpCountsIdlePolls(c1, q1, b1, due, ops, polls + 1, cs)
        Polled(p, cs) ==
            IF IsSome(p.transmit)
            THEN Next1(HandleTimeout(p.conn, due),
                       Push(queue, Unwrap(p.transmit), p.buf), BufClear(p.buf),
                       transmit_ops + 1,
                       Append(cs, PumpCall("handle_timeout", None)))
            ELSE Next1(HandleTimeout(p.conn, due), queue, p.buf, transmit_ops + 1,
                       Append(cs, PumpCall("handle_timeout", None)))
    IN  Polled(PollTransmit(c, MAX_DATAGRAMS, scratch),
               Append(calls, PumpCall("poll_transmit", scratch)))

\* A faulty variant of the pump, which checks the timers once, after its
\* last poll_transmit.
RECURSIVE PumpTimeoutAtEnd(_, _, _, _, _, _, _)
PumpTimeoutAtEnd(c, queue, scratch, due, transmit_ops, polls, calls) ==
    LET Next1(c1, q1, b1, ops, cs) ==
            IF ops >= MAX_TRANSMIT_OPS
            THEN [conn |-> HandleTimeout(c1, due), outbound |-> q1, buf |-> b1,
                  polls |-> polls + 1,
                  calls |-> Append(cs, PumpCall("handle_timeout", None))]
            ELSE PumpTimeoutAtEnd(c1, q1, b1, due, ops, polls + 1, cs)
        Polled(p, cs) ==
            IF IsSome(p.transmit)
            THEN Next1(p.conn, Push(queue, Unwrap(p.transmit), p.buf),
                       BufClear(p.buf), transmit_ops + 1, cs)
            ELSE Next1(p.conn, queue, p.buf, MAX_TRANSMIT_OPS, cs)
    IN  Polled(PollTransmit(c, MAX_DATAGRAMS, scratch),
               Append(calls, PumpCall("poll_transmit", scratch)))

\* The transmit pump of Session::handle_process.  polls counts the
\* poll_transmit calls, calls lists the calls made on the connection.
RECURSIVE Pump(_, _, _, _, _, _, _)
Pump(c, queue, scratch, due, transmit_ops, polls, calls) ==
    LET Next1(c1, q1, b1, ops, cs) ==
            IF ops >= MAX_TRANSMIT_OPS
            THEN [conn |-> c1, outbound |-> q1, buf |-> b1, polls |-> polls + 1,
                  calls |-> cs]
            ELSE Pump(c1, q1, b1, due, ops, polls + 1, cs)
        Polled(p, cs) ==
            IF IsSome(p.transmit)
            THEN Next1(HandleTimeout(p.conn, due),
                       Push(queue, Unwrap(p.transmit), p.buf), BufClear(p.buf),
                       transmit_ops + 1,
                       Append(cs, PumpCall("handle_timeout", None)))
            ELSE Next1(HandleTimeout(p.conn, due), queue, p.buf, MAX_TRANSMIT_OPS,
                       Append(cs, PumpCall("handle_timeout", None)))
    IN  Polled(PollTransmit(c, MAX_DATAGRAMS, scratch),
               Append(calls, PumpCall("poll_transmit", scratch)))

\* A faulty variant of Session::handle_process, which does not ask whether
\* the connection is drained before it updates the request.
SessionHandleProcessUpdatesDrained(sess, queue, scratch, due, debug) ==
    LET Pumped(hs, p) ==
            [sess |-> [inner |-> p.conn, request |-> hs.req],
             outbound |-> p.outbound, buf |-> p.buf, results |-> hs.results,
             polls |-> p.polls, calls |-> p.calls, panic |-> FALSE]
        Shaken(hs) ==
            IF hs.panic
            THEN [sess |-> [inner |-> hs.conn, request |-> hs.req],
                  outbound |-> queue, buf |-> scratch, results |-> hs.results,
                  polls |-> 0,
                  calls |-> [i \in 1..Len(hs.results) |-> PumpCall("update", None)],
                  panic |-> TRUE]
            ELSE Pumped(hs, Pump(hs.conn, queue, scratch, due, 0, 0,
                                 [i \in 1..Len(hs.results) |->
                                     PumpCall("update", None)]))
    IN  Shaken(HandshakeLoop(sess.request, sess.inner, debug, <<>>))

\* Session::handle_process
SessionHandleProcess(sess, queue, scratch, due, debug) ==
    LET Pumped(hs, p) ==
            [sess |-> [inner |-> p.conn, request |-> hs.req],
             outbound |-> p.outbound, buf |-> p.buf, results |-> hs.results,
             polls |-> p.polls, calls |-> p.calls, panic |-> FALSE]
        Shaken(hs) ==
            IF hs.panic
            THEN [sess |-> [inner |-> hs.conn, request |-> hs.req],
                  outbound |-> queue, buf |-> scratch, results |-> hs.results,
                  polls |-> 0,
                  calls |-> [i \in 1..Len(hs.results) |-> PumpCall("update", None)],
                  panic |-> TRUE]
            ELSE Pumped(hs, Pump(hs.conn, queue, scratch, due, 0, 0,
                                 [i \in 1..Len(hs.results) |->
                                     PumpCall("update", None)]))
    IN  Shaken(IF sess.inner.drained
               THEN [req |-> sess.request, conn |-> sess.inner, results |-> <<>>,
                     panic |-> FALSE]
               ELSE HandshakeLoop(sess.request, sess.inner, debug, <<>>))

\* A faulty variant of recv_datagram, which requires Completed before it
\* looks at the queue.
RecvDatagramChecksFirst(sess) ==
    IF sess.request.inner.tag # "Completed"
    THEN [sess |-> sess, res |-> "WebTransportNotConnected", out |-> <<>>,
          taken |-> None]
    ELSE IF sess.inner.dg_in = <<>>
    THEN [sess |-> sess, res |-> "None", out |-> <<>>, taken |-> None]
    ELSE LET bytes == Head(sess.inner.dg_in)
             s1 == [sess EXCEPT !.inner.dg_in = Tail(@)]
             d == VarIntDecode(bytes)
         IN  IF ~d.ok
             THEN [sess |-> s1, res |-> "UnexpectedEnd", out |-> <<>>,
                   taken |-> Some(bytes)]
             ELSE IF d.value # sess.request.inner.session_id
             THEN [sess |-> s1, res |-> "UnexpectedSessionId", out |-> <<>>,
                   taken |-> Some(bytes)]
             ELSE [sess |-> s1, res |-> "Some", out |-> After(bytes, d.pos),
                   taken |-> Some(bytes)]

\* A faulty variant of recv_datagram, which does not compare the session id.
RecvDatagramAnySession(sess) ==
    IF sess.inner.dg_in = <<>>
    THEN [sess |-> sess, res |-> "None", out |-> <<>>, taken |-> None]
    ELSE LET bytes == Head(sess.inner.dg_in)
             s1 == [sess EXCEPT !.inner.dg_in = Tail(@)]
             d == VarIntDecode(bytes)
         IN  IF sess.request.inner.tag # "Completed"
             THEN [sess |-> s1, res |-> "WebTransportNotConnected", out |-> <<>>,
                   taken |-> Some(bytes)]
             ELSE IF ~d.ok
             THEN [sess |-> s1, res |-> "UnexpectedEnd", out |-> <<>>,
                   taken |-> Some(bytes)]
             ELSE [sess |-> s1, res |-> "Some", out |-> After(bytes, d.pos),
                   taken |-> Some(bytes)]

\* Session::recv_datagram.  taken is the QUIC datagram pulled from the
\* connection, out the bytes returned in Ok(Some(..)).
RecvDatagram(sess) ==
    IF sess.inner.dg_in = <<>>
    THEN [sess |-> sess, res |-> "None", out |-> <<>>, taken |-> None]
    ELSE LET bytes == Head(sess.inner.dg_in)
             s1 == [sess EXCEPT !.inner.dg_in = Tail(@)]
             d == VarIntDecode(bytes)
         IN  IF sess.request.inner.tag # "Completed"
             THEN [sess |-> s1, res |-> "WebTransportNotConnected", out |-> <<>>,
                   taken |-> Some(bytes)]
             ELSE IF ~d.ok
             THEN [sess |-> s1, res |-> "UnexpectedEnd", out |-> <<>>,
                   taken |-> Some(bytes)]
             ELSE IF d.value # sess.request.inner.session_id
             THEN [sess |-> s1, res |-> "UnexpectedSessionId", out |-> <<>>,
                   taken |-> Some(bytes)]
             ELSE [sess |-> s1, res |-> "Some", out |-> After(bytes, d.pos),
                   taken |-> Some(bytes)]

RECURSIVE Zeroed(_)
Zeroed(n) == IF n = 0 THEN <<>> ELSE <<0>> \o Zeroed(n - 1)

\* A faulty variant of send_datagram, which leaves the header out.
SendDatagramNoHeader(sess, fill) ==
    IF sess.request.inner.tag # "Completed"
    THEN [sess |-> sess, res |-> "WebTransportNotConnected", sent |-> None,
          filled |-> None, panic |-> FALSE]
    ELSE IF sess.inner.dg_max = None
    THEN [sess |-> sess, res |-> "SendDatagramError", sent |-> None,
          filled |-> None, panic |-> FALSE]
    ELSE LET bytes == SubSeq(fill.data, 1, fill.n)
         IN  [sess |-> [sess EXCEPT !.inner.txq = Append(@, bytes)],
              res |-> "Ok", sent |-> Some(bytes), filled |-> Some(fill.data),
              panic |-> FALSE]

\* Session::send_datagram.  fill writes fill.data at the start of the slice it
\* is given and returns fill.n; sent is the datagram handed to
\* connection.datagrams().send, which the connection queues for transmission;
\* filled is what fill wrote, if it was called.
SendDatagram(sess, fill) ==
    IF sess.request.inner.tag # "Completed"
    THEN [sess |-> sess, res |-> "WebTransportNotConnected", sent |-> None,
          filled |-> None, panic |-> FALSE]
    ELSE IF sess.inner.dg_max = None
    THEN [sess |-> sess, res |-> "SendDatagramError", sent |-> None,
          filled |-> None, panic |-> FALSE]
    ELSE LET header == sess.request.inner.datagram_header
             max_size == Unwrap(sess.inner.dg_max)
             room == max_size - Len(header)
         IN  IF room < 0
             THEN [sess |-> sess, res |-> "panic", sent |-> None,
                   filled |-> None, panic |-> TRUE]
             ELSE IF Len(fill.data) > room \/ fill.n > room
             THEN [sess |-> sess, res |-> "panic", sent |-> None,
                   filled |-> Some(fill.data), panic |-> TRUE]
             ELSE LET slice == fill.data \o Zeroed(room - Len(fill.data))
                      bytes == SubSeq(header \o slice, 1, Len(header) + fill.n)
                  IN  [sess |-> [sess EXCEPT !.inner.txq = Append(@, bytes)],
                       res |-> "Ok", sent |-> Some(bytes),
                       filled |-> Some(fill.data), panic |-> FALSE]

(***************************************************************************)
(* The Server facade (server.rs).                                          *)
(***************************************************************************)
\* Connection::handle_event: what a packet of the peer, routed by the
\* endpoint, does to the connection.
ConnectionHandleEvent(c, ev) ==
    CASE ev.k = "StreamData" /\ ev.stream = "uni" ->
            IF c.uni_in.stopped THEN c
            ELSE [c EXCEPT !.uni_in.open = TRUE,
                           !.uni_in.sent = @ \o ev.bytes,
                           !.uni_in.q = Append(@, ev.bytes)]
      [] ev.k = "StreamData" /\ ev.stream = "bi" ->
            [c EXCEPT !.bi.open = TRUE,
                      !.bi.sent = @ \o ev.bytes,
                      !.bi.q = Append(@, ev.bytes)]
      [] ev.k = "MaxData" -> [c EXCEPT !.credit = @ + ev.n]
      [] ev.k = "MaxStreams" -> [c EXCEPT !.uni_out.allowed = TRUE]
      [] ev.k = "Datagram" -> [c EXCEPT !.dg_in = Append(@, ev.bytes)]
      [] ev.k = "Packet" ->
            IF c.drained THEN c ELSE [c EXCEPT !.txq = Append(@, ev.bytes)]
      [] ev.k = "Retire" ->
            IF c.drained THEN c ELSE [c EXCEPT !.events = Append(@, "Other")]
      [] ev.k = "Reset" ->
            IF c.drained THEN c
            ELSE [c EXCEPT !.drained = TRUE, !.txq = <<>>, !.timeout = None,
                           !.events = Append(@, "Drained")]
      [] OTHER -> c

\* HashMap::insert and HashMap::remove
MapInsert(map, h, v) == [x \in DOMAIN map \cup {h} |-> IF x = h THEN v ELSE map[x]]
\* A faulty removal, which leaves the map as it is.
MapRemoveNothing(map, h) == map

MapRemove(map, h) == [x \in DOMAIN map \ {h} |-> map[x]]

\* A faulty variant of try_accept, which does not queue the response of a
\* failed accept.
TryAcceptDropsResponse(map, queue, accept) ==
    IF accept.ok
    THEN [connections |-> MapInsert(map, accept.handle,
                                    [inner |-> accept.connection,
                                     request |-> RequestNew]),
          outbound |-> queue]
    ELSE [connections |-> map, outbound |-> queue]

\* Server::try_accept, given what endpoint.accept returned.
TryAccept(map, queue, accept) ==
    IF accept.ok
    THEN [connections |-> MapInsert(map, accept.handle,
                                    [inner |-> accept.connection,
                                     request |-> RequestNew]),
          outbound |-> queue]
    ELSE IF IsSome(accept.response)
    THEN [connections |-> map,
          outbound |-> Push(queue, Unwrap(accept.response), accept.bytes)]
    ELSE [connections |-> map, outbound |-> queue]

\* A faulty variant of handle_recv, which hands a connection event to every
\* session of the map.
HandleRecvDeliversToAll(map, queue, event) ==
    CASE event.k = "NewConnection" -> TryAccept(map, queue, event.accept)
      [] event.k = "ConnectionEvent" ->
            [connections |->
                 [h \in DOMAIN map |->
                     [map[h] EXCEPT !.inner =
                                        ConnectionHandleEvent(@, event.event)]],
             outbound |-> queue]
      [] event.k = "Response" ->
            [connections |-> map,
             outbound |-> Push(queue, event.transmit, event.bytes)]
      [] OTHER -> [connections |-> map, outbound |-> queue]

\* Server::handle_recv, given what endpoint.handle returned.
ServerHandleRecv(map, queue, event) ==
    CASE event.k = "NewConnection" -> TryAccept(map, queue, event.accept)
      [] event.k = "ConnectionEvent" ->
            IF event.handle \in DOMAIN map
            THEN [connections |->
                      [map EXCEPT ![event.handle].inner =
                                      ConnectionHandleEvent(@, event.event)],
                  outbound |-> queue]
            ELSE [connections |-> map, outbound |-> queue]
      [] event.k = "Response" ->
            [connections |-> map,
             outbound |-> Push(queue, event.transmit, event.bytes)]
      [] OTHER -> [connections |-> map, outbound |-> queue]

\* The record of a call made inside a handler of the server: its name, the
\* handle it was made for and, for the calls which are given the scratch
\* buffer, the buffer as it was at the call.
ServerCall(op, h, scratch) == [op |-> op, h |-> h, buf |-> scratch]

\* The first loop of Server::handle_process: every session, in the map's
\* iteration order, runs its handle_process and hands over its endpoint
\* events.  log lists, per session, what the update calls returned and the
\* number of poll_transmit calls; calls lists the calls made, each with the
\* handle it was made for.
RECURSIVE ProcessSessions(_, _, _, _, _, _, _, _, _)
ProcessSessions(order, map, queue, scratch, evs, due, debug, log, calls) ==
    LET Polled(c) == [i \in 1..Len(c.events) |-> <<Head(order), c.events[i]>>]
        Made(r) ==
            calls \o [i \in 1..Len(r.calls) |->
                         ServerCall(r.calls[i].op, Head(order), r.calls[i].buf)]
        Processed(r) ==
            IF r.panic
            THEN [connections |-> map, outbound |-> queue, buf |-> scratch,
                  events |-> evs,
                  log |-> Append(log, [h |-> Head(order), results |-> r.results,
                                       polls |-> r.polls]),
                  calls |-> Made(r), panic |-> TRUE]
            ELSE ProcessSessions(
                     Tail(order),
                     [map EXCEPT ![Head(order)] =
                                     [r.sess EXCEPT !.inner.events = <<>>]],
                     r.outbound, r.buf, evs \o Polled(r.sess.inner), due, debug,
                     Append(log, [h |-> Head(order), results |-> r.results,
                                  polls |-> r.polls]),
                     Made(r))
    IN  IF order = <<>>
        THEN [connections |-> map, outbound |-> queue, buf |-> scratch,
              events |-> evs, log |-> log, calls |-> calls, panic |-> FALSE]
        ELSE Processed(SessionHandleProcess(map[Head(order)], queue, scratch,
                                            Head(order) \in due, debug))

\* endpoint.handle_event: the endpoint answers a connection's request for
\* connection ids with a connection event, and a drained event with nothing.
EndpointHandleEvent(event) ==
    IF event = "Other" THEN Some([k |-> "NewIdentifiers"]) ELSE None

\* A faulty variant of the second loop, which removes the session for every
\* endpoint event.
RECURSIVE DrainRemovesOnAnyEvent(_, _, _, _)
DrainRemovesOnAnyEvent(evs, map, delivered, calls) ==
    LET Handled(h, m1, back, cs) ==
            IF IsSome(back) /\ h \in DOMAIN m1
            THEN DrainRemovesOnAnyEvent(
                     Tail(evs),
                     [m1 EXCEPT ![h].inner = ConnectionHandleEvent(@, Unwrap(back))],
                     Append(delivered, h),
                     Append(cs, ServerCall("handle_event", h, None)))
            ELSE DrainRemovesOnAnyEvent(Tail(evs), m1, delivered, cs)
    IN  IF evs = <<>>
        THEN [connections |-> map, delivered |-> delivered, calls |-> calls]
        ELSE Handled(Head(evs)[1],
                     MapRemove(map, Head(evs)[1]),
                     EndpointHandleEvent(Head(evs)[2]),
                     calls \o <<ServerCall("remove", Head(evs)[1], None),
                                ServerCall("endpoint.handle_event", Head(evs)[1],
                                           None)>>)

\* A faulty variant of the second loop, which removes the session of a
\* drained connection after endpoint.handle_event and the delivery of what
\* it returned.
RECURSIVE DrainRemovesAfterHandleEvent(_, _, _, _)
DrainRemovesAfterHandleEvent(evs, map, delivered, calls) ==
    LET Removed(h, m1, cs) ==
            IF Head(evs)[2] = "Drained"
            THEN DrainRemovesAfterHandleEvent(
                     Tail(evs), MapRemove(m1, h), delivered,
                     Append(cs, ServerCall("remove", h, None)))
            ELSE DrainRemovesAfterHandleEvent(Tail(evs), m1, delivered, cs)
        Handled(h, back, cs) ==
            IF IsSome(back) /\ h \in DOMAIN map
            THEN DrainRemovesAfterHandleEvent(
                     Tail(evs),
                     [map EXCEPT ![h].inner = ConnectionHandleEvent(@, Unwrap(back))],
                     Append(delivered, h),
                     Append(cs, ServerCall("handle_event", h, None)))
            ELSE Removed(h, map, cs)
    IN  IF evs = <<>>
        THEN [connections |-> map, delivered |-> delivered, calls |-> calls]
        ELSE Handled(Head(evs)[1], EndpointHandleEvent(Head(evs)[2]),
                     Append(calls, ServerCall("endpoint.handle_event",
                                              Head(evs)[1], None)))

\* The second loop of Server::handle_process: the pending endpoint events.
\* delivered lists the handles a returned connection event was delivered to,
\* calls the calls made: the removal of a session, endpoint.handle_event
\* and the connection's handle_event.
RECURSIVE DrainEndpointEvents(_, _, _, _)
DrainEndpointEvents(evs, map, delivered, calls) ==
    LET Handled(h, m1, back, cs) ==
            IF IsSome(back) /\ h \in DOMAIN m1
            THEN DrainEndpointEvents(
                     Tail(evs),
                     [m1 EXCEPT ![h].inner = ConnectionHandleEvent(@, Unwrap(back))],
                     Append(delivered, h),
                     Append(cs, ServerCall("handle_event", h, None)))
            ELSE DrainEndpointEvents(Tail(evs), m1, delivered, cs)
    IN  IF evs = <<>>
        THEN [connections |-> map, delivered |-> delivered, calls |-> calls]
        ELSE Handled(Head(evs)[1],
                     IF Head(evs)[2] = "Drained" THEN MapRemove(map, Head(evs)[1])
                     ELSE map,
                     EndpointHandleEvent(Head(evs)[2]),
                     IF Head(evs)[2] = "Drained"
                     THEN calls \o <<ServerCall("remove", Head(evs)[1], None),
                                     ServerCall("endpoint.handle_event",
                                                Head(evs)[1], None)>>
                     ELSE Append(calls, ServerCall("endpoint.handle_event",
                                                   Head(evs)[1], None)))

\* A faulty variant of Server::handle_process, which first handles the
\* endpoint events left from the tick before and leaves those it polls in
\* this tick for the next one.
ServerHandleProcessEventsFirst(map, queue, pending, order, due, debug) ==
    LET Both(d, p) ==
            [connections |-> p.connections, outbound |-> p.outbound, buf |-> p.buf,
             endpoint_events |-> p.events, polled |-> pending, log |-> p.log,
             delivered |-> d.delivered, calls |-> p.calls, panic |-> p.panic]
        Drained(d) ==
            Both(d, ProcessSessions([i \in 1..Cardinality(DOMAIN d.connections) |->
                                        SelectSeq(order, LAMBDA h :
                                                      h \in DOMAIN d.connections)[i]],
                                    d.connections, queue, <<>>, <<>>, due, debug,
                                    <<>>, d.calls))
    IN  Drained(DrainEndpointEvents(pending, map, <<>>, <<>>))

\* A faulty variant of handle_process, which goes through the pending
\* endpoint events without taking them out of the list.
ServerHandleProcessKeepsEvents(map, queue, pending, order, due, debug) ==
    LET Drained(p, d) ==
            [connections |-> d.connections, outbound |-> p.outbound, buf |-> p.buf,
             endpoint_events |-> p.events, polled |-> p.events, log |-> p.log,
             delivered |-> d.delivered, calls |-> d.calls, panic |-> p.panic]
        Processed(p) ==
            Drained(p, DrainEndpointEvents(p.events, p.connections, <<>>, p.calls))
    IN  Processed(ProcessSessions(order, map, queue, <<>>, pending, due, debug,
                                  <<>>, <<>>))

\* Server::handle_process
ServerHandleProcess(map, queue, pending, order, due, debug) ==
    LET Drained(p, d) ==
            [connections |-> d.connections, outbound |-> p.outbound, buf |-> p.buf,
             endpoint_events |-> <<>>, polled |-> p.events, log |-> p.log,
             delivered |-> d.delivered, calls |-> d.calls, panic |-> p.panic]
        Processed(p) ==
            Drained(p, DrainEndpointEvents(p.events, p.connections, <<>>, p.calls))
    IN  Processed(ProcessSessions(order, map, queue, <<>>, pending, due, debug,
                                  <<>>, <<>>))

(***************************************************************************)
(* The peers and the network: what endpoint.handle can return for a UDP    *)
(* datagram, and what the application passes to the API.                   *)
(***************************************************************************)
\* what a peer may send on its control stream, and as its request
PeerSettingsFrames == {SettingsEncode(1), SettingsEncode(0), <<2>>}
PeerConnectFrames == {ConnectEncode(1, 1, 7), ConnectEncode(2, 1, 7)}
\* the QUIC datagrams a peer may send: session id 0, session id 4, session
\* id 0 in the two-byte encoding, and a truncated varint
PeerDatagrams == {<<0, 7>>, <<4, 7>>, <<64, 0, 7>>, <<64>>}
\* what the application's fill closures write
FillData == {<<>>, <<5>>, <<5, 6>>}
MaxDatagramSize == 3
Statuses == {200, 404}

\* the non-empty continuations of sent towards one of frames
Continuations(sent, frames) ==
    UNION {{SubSeq(f, Len(sent) + 1, k) : k \in Len(sent) + 1 .. Len(f)} :
           f \in {g \in frames : IsPrefix(sent, g)}}

RECURSIVE SumOver(_, _)
SumOver(map, hs) ==
    IF hs = {} THEN 0
    ELSE LET h == CHOOSE x \in hs : TRUE
         IN  Len(map[h].inner.uni_in.q) + Len(map[h].inner.bi.q)
             + Len(map[h].inner.dg_in) + Len(map[h].inner.events)
             + SumOver(map, hs \ {h})

\* chunks, datagrams and endpoint events waiting in the connections
InFlight == SumOver(connections, DOMAIN connections)

RECURSIVE TxOver(_, _)
TxOver(map, hs) ==
    IF hs = {} THEN 0
    ELSE LET h == CHOOSE x \in hs : TRUE
         IN  Len(map[h].inner.txq) + TxOver(map, hs \ {h})

TxLoad == Len(outbound) + TxOver(connections, DOMAIN connections)

TxBound(env) ==
    IF env = "server" THEN MaxPackets
    ELSE IF env = "pump" THEN MaxQueued
    ELSE MaxOutbound

\* a packet of n bytes of connection c: the bytes tell whose packet it is
Packet(c, n) == [i \in 1..n |-> 8 + c.addr]

\* The packets a connection can be made to queue: one byte, and under load
\* also two bytes at the head of the queue.
Packets(c, env) ==
    IF env = "pump" /\ Len(c.txq) < MixedPackets THEN {Packet(c, 1), Packet(c, 2)}
    ELSE {Packet(c, 1)}

\* The environments in which the endpoint answers datagrams by itself.
Stateless(env) == env \in {"server", "outbound"}

\* The connection events a packet for connection c can carry.  The
\* environments: "request" sends the handshake in arbitrary pieces and
\* grants credit byte by byte; "session" completes the handshake and sends
\* datagrams; "server" runs several connections, resets them and makes them
\* ask the endpoint for connection ids; "pump" leaves the handshake out and
\* makes the connections queue many packets.
ConnectionEvents(c, env) ==
    LET settings == IF env = "request" THEN PeerSettingsFrames
                    ELSE IF env = "server" THEN {SettingsEncode(1), SettingsEncode(0)}
                    ELSE {SettingsEncode(1)}
        connects == IF env = "request" THEN PeerConnectFrames
                    ELSE {ConnectEncode(1, 1, 7)}
        whole(sent, x, frames) == env = "request" \/ sent \o x \in frames
    IN
    (IF env # "pump" /\ InFlight < MaxInFlight /\ ~c.uni_in.stopped
     THEN {[k |-> "StreamData", stream |-> "uni", bytes |-> b] :
              b \in {x \in Continuations(c.uni_in.sent, settings) :
                        whole(c.uni_in.sent, x, settings)}}
     ELSE {})
    \cup
    (IF env # "pump" /\ InFlight < MaxInFlight
     THEN {[k |-> "StreamData", stream |-> "bi", bytes |-> b] :
              b \in {x \in Continuations(c.bi.sent, connects) :
                        whole(c.bi.sent, x, connects)}}
     ELSE {})
    \cup
    (IF env = "request" /\ c.credit < MaxCredit
     THEN {[k |-> "MaxData", n |-> n] : n \in {1, MaxCredit - c.credit}}
     ELSE {})
    \cup (IF c.uni_out.allowed THEN {} ELSE {[k |-> "MaxStreams"]})
    \cup (IF env = "session" /\ InFlight < MaxInFlight
          THEN {[k |-> "Datagram", bytes |-> b] : b \in PeerDatagrams} ELSE {})
    \cup (IF env # "request" /\ TxLoad < TxBound(env) /\ ~c.drained
             /\ (env = "pump" => outbound = <<>>)
          THEN {[k |-> "Packet", bytes |-> b] : b \in Packets(c, env)} ELSE {})
    \cup (IF env = "server" /\ InFlight < MaxInFlight /\ ~c.drained
          THEN {[k |-> "Retire"]} ELSE {})
    \cup (IF env = "server" /\ InFlight < MaxInFlight /\ ~c.drained
          THEN {[k |-> "Reset"]} ELSE {})

\* a transmit the endpoint makes by itself (version negotiation, refusal)
StatelessTransmit ==
    [destination |-> 3, size |-> 1, ecn |-> None, segment_size |-> None,
     src_ip |-> None]

\* What endpoint.accept can return for an incoming connection.
Accepts(handles, env) ==
    {[ok |-> TRUE, handle |-> h, connection |-> ConnectionNew(h, a, c, m)] :
        h \in handles \ DOMAIN connections,
        a \in IF env = "request" THEN BOOLEAN ELSE {TRUE},
        c \in IF env = "request" THEN {0} ELSE {MaxCredit},
        m \in IF env = "session" THEN {None, Some(MaxDatagramSize)} ELSE {None}}
    \cup
    (IF ~Stateless(env) THEN {}
     ELSE {[ok |-> FALSE, response |-> None, bytes |-> <<>>]}
          \cup
          (IF Len(outbound) < TxBound(env)
           THEN {[ok |-> FALSE, response |-> Some(StatelessTransmit),
                  bytes |-> <<8>>]}
           ELSE {}))

\* What endpoint.handle can return.
DatagramEvents(handles, env) ==
    {[k |-> "NewConnection", accept |-> a] : a \in Accepts(handles, env)}
    \cup
    UNION {{[k |-> "ConnectionEvent", handle |-> h, event |-> e] :
               e \in ConnectionEvents(connections[h].inner, env)} :
           h \in DOMAIN connections}
    \cup
    (IF ~Stateless(env) THEN {}
     ELSE {[k |-> "ConnectionEvent", handle |-> h,
            event |-> [k |-> "Packet", bytes |-> <<9>>]] :
              h \in handles \ DOMAIN connections}
          \cup
          (IF Len(outbound) < TxBound(env)
           THEN {[k |-> "Response", transmit |-> StatelessTransmit,
                  bytes |-> <<8>>]}
           ELSE {})
          \cup {[k |-> "None"]})

\* the iteration orders of a map with the keys hs
Orders(hs) ==
    {o \in UNION {[1..n -> hs] : n \in {Cardinality(hs)}} :
        \A i, j \in DOMAIN o : i # j => o[i] # o[j]}

(***************************************************************************)
(* The state machine.                                                      *)
(***************************************************************************)
EmptyMap == [h \in {} |-> None]

\* The record of a call: the operation, the handle it was made on, what it
\* returned (res, out) and what it consumed (arg).  prev is what the last
\* recv_datagram before this call returned on the session now in the map,
\* log, polled, delivered and due are filled in by handle_process, calls
\* by handle_process and handle_recv.  errs keeps, for every update call
\* made on a request by itself that returned an error, the handle, the error
\* and the tagged state the call left.
Called(op, h, res, out) ==
    [op |-> op, h |-> h, res |-> res, out |-> out, arg |-> None,
     prev |-> IF op = "new" THEN ""
              ELSE IF last.op = "recv_datagram" THEN last.res ELSE last.prev,
     log |-> <<>>, polled |-> <<>>, delivered |-> <<>>, due |-> {},
     calls |-> <<>>, errs |-> last.errs]

\* The event loop before its first iteration.
LoopNew ==
    [pc |-> "compute", now |-> 0, deadline |-> None, wait |-> None,
     since |-> 0, spent |-> 0, arrivals |-> 0]

InitWith(builds) ==
    /\ connections = EmptyMap
    /\ outbound = <<>>
    /\ buf = <<>>
    /\ endpoint_events = <<>>
    /\ last = [op |-> "new", h |-> 0, res |-> "", out |-> <<>>, arg |-> None,
               prev |-> "", log |-> <<>>, polled |-> <<>>, delivered |-> <<>>,
               due |-> {}, calls |-> <<>>, errs |-> {}]
    /\ panicked = FALSE
    /\ build \in builds
    /\ now = 0
    /\ loop = LoopNew
    /\ connection_events = EmptyMap

Init == InitWith({"debug"})

\* Server::handle_recv and try_accept: the calls which are given the scratch
\* buffer.  prepare_response_buf clears it before endpoint.handle, and
\* try_accept clears it again before endpoint.accept.
HandleRecvCalls(scratch, event) ==
    LET Prepared(b) ==
            IF event.k = "NewConnection"
            THEN <<ServerCall("endpoint.handle", 0, b),
                   ServerCall("endpoint.accept", 0, BufClear(b))>>
            ELSE <<ServerCall("endpoint.handle", 0, b)>>
    IN  Prepared(BufClear(scratch))

\* Server::handle_recv for one UDP datagram, for which endpoint.handle
\* returned event
HandleRecvOf(event) ==
    LET Handled(r) ==
            /\ connections' = r.connections
            /\ outbound' = r.outbound
    IN  /\ ~panicked
        /\ Handled(ServerHandleRecv(connections, outbound, event))
        /\ buf' = <<>>
        /\ last' = [Called("handle_recv", 0, event.k, <<>>) EXCEPT
                       !.prev = IF event.k = "NewConnection" THEN "" ELSE @,
                       !.arg = Some(event),
                       !.calls = HandleRecvCalls(buf, event)]
        /\ UNCHANGED <<endpoint_events, panicked, build>>

HandleRecv ==
    /\ \E event \in DatagramEvents(Handles, "server") : HandleRecvOf(event)
    /\ UNCHANGED loopvars

\* Server::handle_process; due are the connections whose idle timer expired
HandleProcessAt(due) ==
    LET Processed(r) ==
            /\ connections' = r.connections
            /\ outbound' = r.outbound
            /\ buf' = r.buf
            /\ endpoint_events' = r.endpoint_events
            /\ panicked' = r.panic
            /\ last' = [Called("handle_process", 0, "", <<>>) EXCEPT
                           !.log = r.log, !.polled = r.polled,
                           !.delivered = r.delivered, !.due = due,
                           !.calls = r.calls]
    IN  /\ ~panicked
        /\ \E order \in Orders(DOMAIN connections) :
             Processed(ServerHandleProcess(connections, outbound, endpoint_events,
                                           order, due, build = "debug"))
        /\ UNCHANGED build

HandleProcess ==
    /\ \E due \in SUBSET DOMAIN connections : HandleProcessAt(due)
    /\ UNCHANGED loopvars

\* Session::recv_datagram on the session of handle h
ApiRecvDatagram ==
    LET Returned(h, r) ==
            /\ connections' = [connections EXCEPT ![h] = r.sess]
            /\ last' = [Called("recv_datagram", h, r.res, r.out) EXCEPT
                           !.arg = r.taken]
    IN  /\ ~panicked
        /\ \E h \in DOMAIN connections : Returned(h, RecvDatagram(connections[h]))
        /\ UNCHANGED <<outbound, buf, endpoint_events, panicked, build, loopvars>>

\* Session::send_datagram on the session of handle h
ApiSendDatagram ==
    LET Returned(h, r) ==
            /\ connections' = [connections EXCEPT ![h] = r.sess]
            /\ panicked' = r.panic
            /\ last' = [Called("send_datagram", h, r.res, r.sent) EXCEPT
                           !.arg = r.filled]
    IN  /\ ~panicked
        /\ TxLoad < MaxOutbound
        /\ \E h \in DOMAIN connections, data \in FillData :
             Returned(h, SendDatagram(connections[h],
                                      [data |-> data, n |-> Len(data)]))
        /\ UNCHANGED <<outbound, buf, endpoint_events, build, loopvars>>

\* What sock_mio.try_io(|| sock_quic.try_send(..)) returns for an entry.
SendResults == {"Ok", "WouldBlock", "Error"}

\* the sends of one iteration which may fail: the first MaxFailed
MaxFailed == 2

\* the results of the sends of a queue of n entries
SendScripts(n) ==
    {[i \in 1..n |-> IF i <= MaxFailed THEN first[i] ELSE "Ok"] :
        first \in [1..MaxFailed -> SendResults]}

\* A faulty variant of the send loop, which keeps an entry whose send would
\* block for the next iteration.
RECURSIVE SendAllRequeues(_, _, _, _)
SendAllRequeues(queue, results, kept, sent) ==
    IF queue = <<>> THEN [outbound |-> kept, sent |-> sent]
    ELSE SendAllRequeues(Tail(queue), Tail(results),
                         IF Head(results) = "WouldBlock"
                         THEN Append(kept, Head(queue)) ELSE kept,
                         Append(sent, [entry |-> Head(queue),
                                       res |-> Head(results)]))

\* The loop of main over server.outgoing(): drain(..) takes every entry out
\* of the queue, each one is sent once, and an error is only printed.  kept
\* is what the queue holds when the loop is over, sent the sends in order.
RECURSIVE SendAll(_, _, _, _)
SendAll(queue, results, kept, sent) ==
    IF queue = <<>> THEN [outbound |-> kept, sent |-> sent]
    ELSE SendAll(Tail(queue), Tail(results), kept,
                 Append(sent, [entry |-> Head(queue), res |-> Head(results)]))

\* The loop of main over server.outgoing() with the results of its sends;
\* last keeps the queue as it was (out) and the sends with their results
\* (log)
SendOutgoing ==
    LET Sent(r) ==
            /\ outbound' = r.outbound
            /\ last' = [Called("outgoing", 0, "", outbound) EXCEPT !.log = r.sent]
    IN  /\ ~panicked
        /\ \E results \in SendScripts(Len(outbound)) :
              Sent(SendAll(outbound, results, <<>>, <<>>))
        /\ UNCHANGED <<connections, buf, endpoint_events, panicked, build>>

\* Server::outgoing, iterated to the end by the event loop
OutgoingDrain ==
    /\ ~panicked
    /\ outbound' = <<>>
    /\ last' = Called("outgoing", 0, "", outbound)
    /\ UNCHANGED <<connections, buf, endpoint_events, panicked, build>>

Outgoing ==
    /\ outbound # <<>>
    /\ OutgoingDrain
    /\ UNCHANGED loopvars

Next == HandleRecv \/ HandleProcess \/ Outgoing

Spec == Init /\ [][Next]_vars

(***************************************************************************)
(* One session and its datagram API.                                       *)
(***************************************************************************)
HandleRecvSession ==
    /\ \E event \in DatagramEvents({1}, "session") : HandleRecvOf(event)
    /\ UNCHANGED loopvars

NextSession ==
    \/ HandleRecvSession
    \/ HandleProcess
    \/ ApiRecvDatagram
    \/ ApiSendDatagram
    \/ Outgoing

SpecSession == Init /\ [][NextSession]_vars

(***************************************************************************)
(* One request, driven call by call: update and respond in any order, in   *)
(* a debug or a release build.                                             *)
(***************************************************************************)
HandleRecvRequest ==
    /\ \E event \in DatagramEvents({1}, "request") : HandleRecvOf(event)
    /\ UNCHANGED loopvars

\* Request::update on the session of handle h
ReqUpdate ==
    LET Returned(h, u) ==
            /\ connections' = [connections EXCEPT ![h] =
                                   [inner |-> u.conn, request |-> u.req]]
            /\ last' = [Called("update", h, u.res, u.arg) EXCEPT
                           !.errs = IF u.res \in UpdateErrors
                                    THEN @ \cup {[h |-> h, res |-> u.res,
                                                  tag |-> u.req.inner.tag]}
                                    ELSE @]
    IN  /\ ~panicked
        /\ \E h \in DOMAIN connections :
             Returned(h, RequestUpdate(connections[h].request, connections[h].inner))
        /\ UNCHANGED <<outbound, buf, endpoint_events, panicked, build, loopvars>>

\* Request::respond on the session of handle h
ReqRespond ==
    LET Returned(h, status, r) ==
            /\ connections' = [connections EXCEPT ![h].request = r.req]
            /\ panicked' = r.panic
            /\ last' = Called("respond", h, r.res, <<status>>)
    IN  /\ ~panicked
        /\ \E h \in DOMAIN connections, status \in Statuses :
             /\ \/ connections[h].request.inner.tag # "Response"
                \/ Len(connections[h].request.data_buf)
                      < MaxResponds * Len(ResponseEncode(status))
             /\ Returned(h, status,
                         RequestRespond(connections[h].request, status,
                                        build = "debug"))
        /\ UNCHANGED <<outbound, buf, endpoint_events, build, loopvars>>

InitRequest == InitWith({"debug", "release"})

NextRequest == HandleRecvRequest \/ ReqUpdate \/ ReqRespond

SpecRequest == InitRequest /\ [][NextRequest]_vars

(***************************************************************************)
(* Outbound::push on its own: any transmit over any scratch buffer that    *)
(* holds at least transmit.size bytes.                                     *)
(***************************************************************************)
MaxPayload == 4

PushTransmits ==
    [destination : {3}, size : 0..MaxPayload, ecn : {None, Some(1)},
     segment_size : {None} \cup {Some(k) : k \in 1..MaxPayload}, src_ip : {None}]

\* the caller's scratch buffer: n bytes, all different
Scratch(n) == [i \in 1..n |-> i]

\* Outbound::push; last keeps the length of the queue before the call and
\* the arguments
PushTransmit ==
    /\ Len(outbound) < MaxOutbound
    /\ \E transmit \in PushTransmits, n \in 0..MaxPayload :
         /\ transmit.size <= n
         /\ outbound' = Push(outbound, transmit, Scratch(n))
         /\ last' = Called("push", Len(outbound), "", <<transmit, Scratch(n)>>)
         /\ buf' = BufClear(Scratch(n))
    /\ UNCHANGED <<connections, endpoint_events, panicked, build, loopvars>>

NextPush == PushTransmit \/ Outgoing

SpecPush == Init /\ [][NextPush]_vars

(***************************************************************************)
(* Properties of the handshake state machine.                              *)
(***************************************************************************)
Path == <<"Settings", "Connect", "Response", "Completed">>

Tag(h) == connections[h].request.inner.tag

\* C1: over any sequence of update and respond calls the tagged state of a
\* request only moves forward along Settings, Connect, Response, Completed:
\* every value it is given is the successor of the one before, and
\* Completed is never left.
C1_OnlyForward ==
    [][\A h \in DOMAIN connections \cap DOMAIN connections' :
         LET req == connections[h].request
             req1 == connections'[h].request
         IN  /\ IsPrefix(req.trace, req1.trace)
             /\ IsPrefix(req1.trace, Path)
             /\ req1.trace[Len(req1.trace)] = req1.inner.tag
             /\ req.inner.tag = "Completed" => req1.inner.tag = "Completed"]_vars

\* a request walked the whole path, and update was called on it afterwards
C1_Witness ==
    \E h \in DOMAIN connections :
        /\ connections[h].request.trace = Path
        /\ last.op = "update" /\ last.res = "Completed"

(***************************************************************************)
(* Properties of the datagram API.                                         *)
(***************************************************************************)
Completed(h) == Tag(h) = "Completed"

\* the calls of the datagram API on the session of handle h
SendCalled(h) == last.op = "send_datagram" /\ last.h = h /\ h \in DOMAIN connections
RecvCalled(h) == last.op = "recv_datagram" /\ last.h = h /\ h \in DOMAIN connections

\* C2: on a session whose request is not Completed, send_datagram returns
\* WebTransportNotConnected, does not call fill and hands no datagram to the
\* connection; recv_datagram returns Ok(None) when no datagram is queued and
\* WebTransportNotConnected when one is.
C2_NotConnected ==
    [][\A h \in DOMAIN connections :
         ~Completed(h) =>
            /\ SendCalled(h)' =>
                  /\ last'.res = "WebTransportNotConnected"
                  /\ last'.arg = None
                  /\ last'.out = None
                  /\ connections'[h] = connections[h]
            /\ RecvCalled(h)' =>
                  last'.res = IF connections[h].inner.dg_in = <<>> THEN "None"
                              ELSE "WebTransportNotConnected"]_vars

\* recv_datagram refused a queued datagram because the handshake is not over
C2_Witness ==
    \E h \in DOMAIN connections :
        /\ ~Completed(h)
        /\ RecvCalled(h)
        /\ last.res = "WebTransportNotConnected"
        /\ IsSome(last.arg)

\* C3: on a Completed session with session id s, recv_datagram on a
\* datagram whose leading varint decodes to another value returns
\* UnexpectedSessionId, the request stays Completed and the session stays in
\* the map; a datagram whose leading varint is s, also after such a
\* refusal, is returned without the varint.
C3_UnexpectedSessionId ==
    [][\A h \in DOMAIN connections :
         (Completed(h) /\ RecvCalled(h)' /\ connections[h].inner.dg_in # <<>>) =>
            LET bytes == Head(connections[h].inner.dg_in)
                d == VarIntDecode(bytes)
                s == connections[h].request.inner.session_id
            IN  /\ (d.ok /\ d.value # s) =>
                      /\ last'.res = "UnexpectedSessionId"
                      /\ h \in DOMAIN connections'
                      /\ connections'[h].request = connections[h].request
                /\ (d.ok /\ d.value = s) =>
                      /\ last'.res = "Some"
                      /\ last'.out = After(bytes, d.pos)]_vars

\* a datagram for the session is returned after one for another session was
\* refused
C3_Witness ==
    \E h \in DOMAIN connections :
        /\ Completed(h)
        /\ RecvCalled(h)
        /\ last.prev = "UnexpectedSessionId"
        /\ last.res = "Some"
        /\ last.out = <<7>>

\* C4: on a Completed session, every datagram send_datagram hands to the
\* connection is datagram_header followed by the bytes fill wrote, and every
\* datagram recv_datagram accepts begins with a varint that decodes to the
\* session id, which need not be the encoding in datagram_header.
C4_DatagramHeader ==
    \A h \in DOMAIN connections :
        LET c == connections[h].request.inner
        IN  /\ (SendCalled(h) /\ last.res = "Ok") =>
                  /\ Completed(h)
                  /\ last.out = Some(c.datagram_header \o Unwrap(last.arg))
                  /\ connections[h].inner.txq # <<>>
                  /\ connections[h].inner.txq[Len(connections[h].inner.txq)]
                        = Unwrap(last.out)
            /\ (RecvCalled(h) /\ last.res = "Some") =>
                  /\ Completed(h)
                  /\ VarIntDecode(Unwrap(last.arg)).ok
                  /\ VarIntDecode(Unwrap(last.arg)).value = c.session_id

\* a datagram was accepted whose session id is in the two-byte encoding
C4_Witness ==
    \E h \in DOMAIN connections :
        /\ Completed(h)
        /\ RecvCalled(h)
        /\ last.res = "Some"
        /\ Len(Unwrap(last.arg)) = 3

\* C4 as the specification states it: every datagram recv_datagram accepts
\* begins with the bytes of datagram_header.
C4_AcceptedBeginsWithHeader ==
    \A h \in DOMAIN connections :
        (RecvCalled(h) /\ last.res = "Some") =>
            IsPrefix(connections[h].request.inner.datagram_header, Unwrap(last.arg))

(***************************************************************************)
(* Properties of the handshake's failures and partial input.               *)
(***************************************************************************)
\* the call just made on the request of handle h
UpdateCalled(h) == last.op = "update" /\ last.h = h /\ h \in DOMAIN connections
RespondCalled(h) == last.op = "respond" /\ last.h = h /\ h \in DOMAIN connections

\* the request is in Settings and the bytes it has received are a SETTINGS
\* frame that does not enable WebTransport
RefusedRequest(req) ==
    /\ req.inner.tag = "Settings"
    /\ SettingsDecode(req.data_buf).res = "Ok"
    /\ SettingsDecode(req.data_buf).supports_webtransport = 0

Refused(h) == RefusedRequest(connections[h].request)

\* C5: when the peer's SETTINGS decode with supports_webtransport = 0, the
\* update that decoded them returns WebTransportUnsupported, and from then
\* on the request stays in Settings: no CONNECT stream is accepted, nothing
\* is written on the request stream, the request never completes.
C5_Unsupported ==
    [][\A h \in DOMAIN connections \cap DOMAIN connections' :
         /\ (~Refused(h) /\ RefusedRequest(connections'[h].request)) =>
               /\ UpdateCalled(h)'
               /\ last'.res = "WebTransportUnsupported"
         /\ Refused(h) =>
               /\ RefusedRequest(connections'[h].request)
               /\ ~connections'[h].inner.bi.accepted
               /\ connections'[h].inner.bi.written = <<>>
               /\ connections'[h].request.trace = <<"Settings">>]_vars

\* update was called again after the refusal, with the peer's CONNECT
\* request waiting
C5_Witness ==
    \E h \in DOMAIN connections :
        /\ Refused(h)
        /\ UpdateCalled(h)
        /\ last.res = "UnexpectedEnd"
        /\ connections[h].inner.bi.q # <<>>

\* C7: in Settings and in Connect, when the bytes read so far do not decode
\* yet (UnexpectedEnd from the codec), update returns Waiting and leaves the
\* tagged state alone; the bytes received stay in the buffer and the chunk
\* just read is appended to them; the buffer only loses bytes when the state
\* advances.
C7_PartialInput ==
    [][\A h \in DOMAIN connections \cap DOMAIN connections' :
         LET req == connections[h].request
             req1 == connections'[h].request
             uni == connections[h].inner.uni_in
             bi == connections[h].inner.bi
         IN  /\ ( /\ UpdateCalled(h)' /\ req.inner.tag = "Settings"
                  /\ uni.q # <<>> /\ connections'[h].inner.uni_in.q = Tail(uni.q)
                  /\ SettingsDecode(req.data_buf \o Head(uni.q)).res = "UnexpectedEnd" )
                => /\ last'.res = "Waiting"
                   /\ req1.inner.tag = "Settings"
                   /\ req1.data_buf = req.data_buf \o Head(uni.q)
             /\ ( /\ UpdateCalled(h)' /\ req.inner.tag = "Connect"
                  /\ bi.q # <<>> /\ connections'[h].inner.bi.q = Tail(bi.q)
                  /\ ConnectDecode(req.data_buf \o Head(bi.q)).res = "UnexpectedEnd" )
                => /\ last'.res = "Waiting"
                   /\ req1.inner.tag = "Connect"
                   /\ req1.data_buf = req.data_buf \o Head(bi.q)
             /\ (req.inner.tag \in {"Settings", "Connect"}
                   /\ req1.inner.tag = req.inner.tag)
                => IsPrefix(req.data_buf, req1.data_buf)]_vars

\* a CONNECT request is arriving in pieces: two bytes are buffered and do
\* not decode yet
C7_Witness ==
    \E h \in DOMAIN connections :
        /\ Tag(h) = "Connect"
        /\ UpdateCalled(h)
        /\ last.res = "Waiting"
        /\ Len(connections[h].request.data_buf) = 2
        /\ connections[h].inner.bi.sent = connections[h].request.data_buf
        /\ ConnectDecode(connections[h].request.data_buf).res = "UnexpectedEnd"

RECURSIVE Payloads(_, _, _)
Payloads(queue, i, j) ==
    IF i > j THEN <<>> ELSE queue[i].payload \o Payloads(queue, i + 1, j)

\* C9: after any pushes every entry of the queue has no segment_size and
\* the size of its payload, and the payloads of the entries of one push,
\* in queue order, make up scratch[..transmit.size] as it was at the push.
C9_Push ==
    /\ \A i \in DOMAIN outbound :
          /\ outbound[i].transmit.segment_size = None
          /\ outbound[i].transmit.size = Len(outbound[i].payload)
    /\ last.op = "push" =>
          Payloads(outbound, last.h + 1, Len(outbound))
             = SubSeq(last.out[2], 1, last.out[1].size)

\* a push of three bytes in segments of two left two entries
C9_Witness ==
    /\ last.op = "push"
    /\ last.out[1].segment_size = Some(2)
    /\ last.out[1].size = 3
    /\ Len(last.out[2]) = 4
    /\ Len(outbound) = last.h + 2
    /\ Len(outbound[Len(outbound)].payload) = 1

(***************************************************************************)
(* Properties of Server::handle_process.                                   *)
(***************************************************************************)
\* the handles whose connection handed over a drained event in the last
\* handle_process
DrainedInCall == {last.polled[i][1] : i \in {j \in DOMAIN last.polled :
                                                 last.polled[j][2] = "Drained"}}

\* the handles whose update call failed in the last handle_process with an
\* error that is fatal for the connection
FatalErrors ==
    {"WebTransportUnsupported", "SettingsError", "ConnectError", "ReadError",
     "WriteError"}

FailedInCall ==
    {last.log[i].h : i \in {j \in DOMAIN last.log :
         /\ last.log[j].results # <<>>
         /\ last.log[j].results[Len(last.log[j].results)] \in FatalErrors}}

\* C6: a session whose update returned a connection-fatal error during
\* handle_process is no longer in the map when handle_process returns.
C6_FatalErrorDropsSession ==
    last.op = "handle_process" => FailedInCall \cap DOMAIN connections = {}

\* C10: every handle whose connection emitted a drained endpoint event
\* during a handle_process call is absent from the map when the call returns.
C10_DrainedRemoved ==
    last.op = "handle_process" => DrainedInCall \cap DOMAIN connections = {}

\* one connection drained in a call and was removed, the other stays
C10_Witness ==
    /\ last.op = "handle_process"
    /\ DrainedInCall # {}
    /\ DOMAIN connections # {}
    /\ Len(last.log) = 2

(***************************************************************************)
(* Properties of the connections map.                                      *)
(***************************************************************************)
\* the handles for which a drained endpoint event is among the events
\* polled, a sequence of (handle, event) pairs
DrainedIn(polled) ==
    {polled[i][1] : i \in {j \in DOMAIN polled : polled[j][2] = "Drained"}}

\* C11: a session leaves the connections map in a step if and only if that
\* step is a handle_process call which processes a drained endpoint event
\* for its handle; every other call (handle_recv with any event, a failed
\* accept, an event for an unknown handle, a handle_process in which the
\* handshake fails) keeps every session that is in the map.
C11_RemovedIffDrained ==
    [][\A h \in DOMAIN connections :
          h \notin DOMAIN connections'
             <=> (last'.op = "handle_process" /\ h \in DrainedIn(last'.polled))]_vars

\* in one handle_process a session whose connection drained was removed,
\* while an endpoint event of another kind left the other session in the map
C11_Witness ==
    /\ last.op = "handle_process"
    /\ DrainedIn(last.polled) # {}
    /\ DOMAIN connections # {}
    /\ \E i \in DOMAIN last.polled :
          /\ last.polled[i][2] = "Other"
          /\ last.polled[i][1] \in DOMAIN connections

(***************************************************************************)
(* The transmit pump under load: connections which queue many packets      *)
(* between two handle_process calls.                                       *)
(***************************************************************************)
HandleRecvPump ==
    /\ \E event \in DatagramEvents({1}, "pump") : HandleRecvOf(event)
    /\ UNCHANGED loopvars

NextPump == HandleRecvPump \/ HandleProcess \/ Outgoing

SpecPump == Init /\ [][NextPump]_vars

\* the entries of queue for the destination addr
EntriesFor(queue, addr) ==
    SelectSeq(queue, LAMBDA e : e.transmit.destination = addr)

\* the entries appended to the outbound queue in this step for handle h
\* (the address of a connection is its handle in the model)
AddedFor(h) ==
    EntriesFor(SubSeq(outbound', Len(outbound) + 1, Len(outbound')), h)

\* C12: in one handle_process call the pump of each session calls
\* poll_transmit at most MAX_TRANSMIT_OPS times and the session appends at
\* most MAX_TRANSMIT_OPS * MAX_DATAGRAMS entries to the outbound queue,
\* whatever it has queued; what it did not emit is still queued in the
\* connection, in order, unless the connection drained.
C12_PumpBounded ==
    [][last'.op = "handle_process" =>
         \A i \in DOMAIN last'.log :
            /\ last'.log[i].polls <= MAX_TRANSMIT_OPS
            /\ Len(AddedFor(last'.log[i].h)) <= MAX_TRANSMIT_OPS * MAX_DATAGRAMS
            /\ (/\ last'.log[i].h \in DOMAIN connections'
                /\ ~connections'[last'.log[i].h].inner.drained)
               => Concat(connections[last'.log[i].h].inner.txq)
                    = Payloads(AddedFor(last'.log[i].h), 1,
                               Len(AddedFor(last'.log[i].h)))
                      \o Concat(connections'[last'.log[i].h].inner.txq)]_vars

\* a session with 35 packets queued was pumped: three polls, thirty entries
\* in the outbound queue, five packets left for the next tick
C12_Witness ==
    /\ last.op = "handle_process"
    /\ \E i \in DOMAIN last.log :
          /\ last.log[i].polls = MAX_TRANSMIT_OPS
          /\ last.log[i].h \in DOMAIN connections
          /\ Len(EntriesFor(outbound, last.log[i].h))
                = MAX_TRANSMIT_OPS * MAX_DATAGRAMS
          /\ Len(connections[last.log[i].h].inner.txq) = 5

(***************************************************************************)
(* A tick without input.                                                   *)
(***************************************************************************)
\* Nothing waits for handle_process: no stream chunk to read, no packet to
\* transmit, no endpoint event to hand over.
Quiet ==
    /\ endpoint_events = <<>>
    /\ \A h \in DOMAIN connections :
          /\ connections[h].inner.uni_in.q = <<>>
          /\ connections[h].inner.bi.q = <<>>
          /\ connections[h].inner.txq = <<>>
          /\ connections[h].inner.events = <<>>

\* C13: a handle_process that directly follows a handle_process, with no
\* timer due and nothing waiting (no stream chunk, no packet to transmit, no
\* endpoint event), adds no outbound entry, leaves every map entry with its
\* request state as it was, and runs the pump's loop body, and with it
\* handle_timeout, exactly once for each session.
C13_IdleTick ==
    [][(/\ last.op = "handle_process"
        /\ last'.op = "handle_process"
        /\ last'.due = {}
        /\ Quiet)
       => /\ outbound' = outbound
          /\ connections' = connections
          /\ Len(last'.log) = Cardinality(DOMAIN connections)
          /\ \A h \in DOMAIN connections :
                \E i \in DOMAIN last'.log :
                   last'.log[i].h = h /\ last'.log[i].polls = 1]_vars

\* Two sessions were ticked a second time, one in the middle of its
\* handshake and one after it, with nothing waiting.
C13_Witness ==
    /\ last.op = "handle_process"
    /\ last.due = {}
    /\ last.polled = <<>>
    /\ Len(last.log) = 2
    /\ \A i \in DOMAIN last.log :
          last.log[i].polls = 1 /\ Len(last.log[i].results) = 1
    /\ DOMAIN connections = Handles
    /\ connections[1].request.inner.tag = "Completed"
    /\ connections[2].request.inner.tag = "Connect"

(***************************************************************************)
(* The event loop of main and the timers.  Time is counted in units of a   *)
(* third of the idle timeout.                                              *)
(***************************************************************************)
\* max_idle_timeout, in units of the clock
IdleTimeout == 3
\* the clock stops here
MaxTime == 8
\* the UDP datagrams that arrive altogether
MaxArrivals == 4
\* the most time one iteration of the loop spends outside poll
MaxBusy == 2

\* connection.poll_timeout()
PollTimeout(c) == c.timeout

\* A faulty variant of compute_next_timeout, which keeps the timeout of the
\* session it saw last.
RECURSIVE ComputeNextTimeoutLast(_, _, _)
ComputeNextTimeoutLast(map, order, min) ==
    IF order = <<>> THEN min
    ELSE ComputeNextTimeoutLast(
             map, Tail(order),
             IF IsSome(PollTimeout(map[Head(order)].inner))
             THEN PollTimeout(map[Head(order)].inner)
             ELSE min)

\* Server::compute_next_timeout: the fold over the map, in its iteration
\* order, starting with min = None.
RECURSIVE ComputeNextTimeout(_, _, _)
ComputeNextTimeout(map, order, min) ==
    IF order = <<>> THEN min
    ELSE ComputeNextTimeout(
             map, Tail(order),
             IF IsSome(PollTimeout(map[Head(order)].inner))
             THEN IF IsSome(min)
                  THEN Some(Min(Unwrap(min),
                                Unwrap(PollTimeout(map[Head(order)].inner))))
                  ELSE PollTimeout(map[Head(order)].inner)
             ELSE min)

\* Instant::checked_duration_since: None when earlier is later than t
CheckedDurationSince(t, earlier) ==
    IF earlier <= t THEN Some(t - earlier) ELSE None

\* The Duration handed to poll:
\* min.and_then(|min| min.checked_duration_since(Instant::now()))
NextWait(min, t) ==
    IF IsSome(min) THEN CheckedDurationSince(Unwrap(min), t) ELSE None

\* The connections a UDP datagram reaches, given what endpoint.handle
\* returned for it.
Touched(event) ==
    IF event.k = "NewConnection" /\ event.accept.ok THEN {event.accept.handle}
    ELSE IF event.k = "ConnectionEvent" THEN {event.handle}
    ELSE {}

\* A packet of the peer restarts the idle timer of its connection.
RestartIdle(map, hs, t) ==
    [h \in DOMAIN map |->
        IF h \in hs /\ ~map[h].inner.drained
        THEN [map[h] EXCEPT !.inner.timeout = Some(t + IdleTimeout)]
        ELSE map[h]]

\* The connections whose timer has expired at time t
Due(map, t) ==
    {h \in DOMAIN map :
        /\ IsSome(PollTimeout(map[h].inner))
        /\ Unwrap(PollTimeout(map[h].inner)) <= t}

\* The head of the loop: compute_next_timeout, and poll is entered with the
\* wait it returned.
LoopCompute ==
    LET Computed(min) ==
            loop' = [loop EXCEPT !.pc = "poll", !.deadline = min,
                                 !.wait = NextWait(min, now), !.since = now]
    IN  /\ loop.pc = "compute"
        /\ ~panicked
        /\ \E order \in Orders(DOMAIN connections) :
             Computed(ComputeNextTimeout(connections, order, None))
        /\ last' = Called("compute_next_timeout", 0, "", <<>>)
        /\ UNCHANGED <<connections, outbound, buf, endpoint_events, panicked,
                       build, now, connection_events>>

\* poll returns because a UDP datagram arrived; the loop reads the clock and
\* hands the datagram to handle_recv.
LoopPollReadable ==
    LET Handled(event, r) ==
            /\ connections' = RestartIdle(r.connections, Touched(event), now)
            /\ outbound' = r.outbound
            /\ last' = [Called("handle_recv", 0, event.k, <<>>) EXCEPT
                           !.prev = IF event.k = "NewConnection" THEN "" ELSE @,
                           !.arg = Some(event)]
    IN  /\ loop.pc = "poll"
        /\ ~panicked
        /\ loop.arrivals < MaxArrivals
        /\ now + IdleTimeout <= MaxTime
        /\ \E event \in DatagramEvents(Handles, "loop") :
             Handled(event, ServerHandleRecv(connections, outbound, event))
        /\ buf' = <<>>
        /\ loop' = [loop EXCEPT !.pc = "process", !.now = now, !.spent = 0,
                                !.arrivals = @ + 1]
        /\ UNCHANGED <<endpoint_events, panicked, build, now, connection_events>>

\* poll returns because the wait it was given has passed.
LoopPollTimeout ==
    /\ loop.pc = "poll"
    /\ ~panicked
    /\ IsSome(loop.wait)
    /\ now >= loop.since + Unwrap(loop.wait)
    /\ loop' = [loop EXCEPT !.pc = "process", !.now = now, !.spent = 0]
    /\ last' = Called("poll", 0, "timeout", <<>>)
    /\ UNCHANGED <<connections, outbound, buf, endpoint_events, panicked, build,
                   now, connection_events>>

\* server.handle_process(now), with the time read after poll.  No QUIC
\* datagram is queued in this environment, so the loop over
\* connections_mut that follows finds nothing and pings nobody.
LoopProcess ==
    /\ loop.pc = "process"
    /\ HandleProcessAt(Due(connections, loop.now))
    /\ loop' = [loop EXCEPT !.pc = "send"]
    /\ UNCHANGED <<now, connection_events>>

\* the loop over server.outgoing()
LoopSend ==
    /\ loop.pc = "send"
    /\ OutgoingDrain
    /\ loop' = [loop EXCEPT !.pc = "compute"]
    /\ UNCHANGED <<now, connection_events>>

\* Time passes: freely while the loop waits in poll, and by at most MaxBusy
\* units during the rest of an iteration.
Tick ==
    /\ now < MaxTime
    /\ (loop.pc = "poll" \/ loop.spent < MaxBusy)
    /\ now' = now + 1
    /\ loop' = [loop EXCEPT !.spent = IF loop.pc = "poll" THEN @ ELSE @ + 1]
    /\ UNCHANGED <<connections, outbound, buf, endpoint_events, last, panicked,
                   build, connection_events>>

NextLoop ==
    \/ LoopCompute
    \/ LoopPollReadable
    \/ LoopPollTimeout
    \/ LoopProcess
    \/ LoopSend
    \/ Tick

SpecLoop == Init /\ [][NextLoop]_vars

(***************************************************************************)
(* Properties of the timers and the event loop.                            *)
(***************************************************************************)
\* the timeouts the sessions of the map have set
TimeoutsOf(map) ==
    {Unwrap(PollTimeout(map[h].inner)) :
        h \in {x \in DOMAIN map : IsSome(PollTimeout(map[x].inner))}}

\* C15: compute_next_timeout returns the least of the timeouts the sessions
\* have set, and None exactly when no session has one (the empty map
\* included); it leaves the map, and with it every request, as it was.
C15_NextTimeoutIsMin ==
    [][(loop.pc = "compute" /\ loop'.pc = "poll")
       => /\ connections' = connections
          /\ (loop'.deadline = None <=> TimeoutsOf(connections) = {})
          /\ (TimeoutsOf(connections) # {}
              => /\ Unwrap(loop'.deadline) \in TimeoutsOf(connections)
                 /\ \A t \in TimeoutsOf(connections) :
                       Unwrap(loop'.deadline) <= t)]_vars

\* compute_next_timeout has returned the earlier of two different timeouts.
C15_Witness ==
    /\ loop.pc = "poll"
    /\ last.op = "compute_next_timeout"
    /\ Cardinality(TimeoutsOf(connections)) = 2
    /\ IsSome(loop.deadline)
    /\ \A t \in TimeoutsOf(connections) : Unwrap(loop.deadline) <= t

\* C14: while the loop is in poll and a session has a timeout set, the wait
\* poll was given is a duration of at most max(0, earliest timeout - the
\* time compute_next_timeout read); it is zero when that timeout had
\* already passed, and unbounded (None) only when no session has a timeout.
C14_WaitBounded ==
    (loop.pc = "poll" /\ TimeoutsOf(connections) # {})
    => /\ IsSome(loop.wait)
       /\ \A t \in TimeoutsOf(connections) :
             (\A u \in TimeoutsOf(connections) : t <= u)
             => Unwrap(loop.wait) <= (IF t > loop.since THEN t - loop.since ELSE 0)

(***************************************************************************)
(* Receiving from the socket: Socket::recv_all and the receive loop of     *)
(* main.  The socket is given by what its successive receive calls         *)
(* return; once they are used up it has nothing more (WouldBlock).         *)
(***************************************************************************)
\* the longest receive buffer contents
MaxLen == 5

\* The RecvMeta of the slot at position i of a batch: the kernel fills in
\* the sender, the length, the stride of the datagrams merged by GRO (the
\* length itself when nothing was merged) and the timestamp.
RecvMetas(i) ==
    {m \in [addr : {i}, len : 0..MaxLen, stride : 1..MaxLen,
            timestamp : {Some(0)}] : m.stride <= m.len \/ m.stride = 1}

\* what one receive call can return: one or two filled slots, or an error
RecvResults ==
    {[k |-> "Ok", metas |-> <<m>>] : m \in RecvMetas(1)}
    \cup {[k |-> "Ok", metas |-> <<m, n>>] : m \in RecvMetas(1), n \in RecvMetas(2)}
    \cup {[k |-> e, metas |-> <<>>] : e \in {"WouldBlock", "ConnectionReset", "Other"}}

\* one or two receive calls
RecvScripts ==
    {<<r>> : r \in RecvResults} \cup {<<r, s>> : r, s \in RecvResults}

\* the bytes the kernel wrote to the slot: buf[0..meta.len]
SlotData(meta) == Scratch(meta.len)

\* A faulty variant of the split, which hands over whole strides only.
RECURSIVE SplitWholeStrides(_, _)
SplitWholeStrides(data, meta) ==
    IF Len(data) < meta.stride THEN <<>>
    ELSE <<[bytes |-> SubSeq(data, 1, meta.stride), meta |-> meta]>>
         \o SplitWholeStrides(After(data, meta.stride), meta)

\* The inner loop: while data is not empty, f(data.split_to(..), meta).
\* The result lists the calls of f.
RECURSIVE SplitDatagrams(_, _)
SplitDatagrams(data, meta) ==
    IF data = <<>> THEN <<>>
    ELSE <<[bytes |-> SubSeq(data, 1, Min(meta.stride, Len(data))),
            meta |-> meta]>>
         \o SplitDatagrams(After(data, Min(meta.stride, Len(data))), meta)

\* the loop over the filled slots of one batch
RECURSIVE BatchCalls(_)
BatchCalls(metas) ==
    IF metas = <<>> THEN <<>>
    ELSE SplitDatagrams(SlotData(Head(metas)), Head(metas))
         \o BatchCalls(Tail(metas))

\* Socket::recv_all: calls lists the calls of f, batches the batches that
\* were received.
RECURSIVE RecvAll(_, _, _)
RecvAll(script, calls, batches) ==
    IF script = <<>> \/ Head(script).k = "WouldBlock"
    THEN [res |-> "Ok", calls |-> calls, batches |-> batches, panic |-> FALSE]
    ELSE IF Head(script).k = "Ok"
    THEN RecvAll(Tail(script), calls \o BatchCalls(Head(script).metas),
                 Append(batches, Head(script).metas))
    ELSE [res |-> Head(script).k, calls |-> calls, batches |-> batches,
          panic |-> FALSE]

\* The receive loop of main, which does the same on its own: here f is
\* server.handle_recv, ConnectionReset is passed over and every other error
\* panics.
RECURSIVE MainRecv(_, _, _)
MainRecv(script, calls, batches) ==
    IF script = <<>> \/ Head(script).k = "WouldBlock"
    THEN [res |-> "Ok", calls |-> calls, batches |-> batches, panic |-> FALSE]
    ELSE IF Head(script).k = "Ok"
    THEN MainRecv(Tail(script), calls \o BatchCalls(Head(script).metas),
                  Append(batches, Head(script).metas))
    ELSE IF Head(script).k = "ConnectionReset"
    THEN MainRecv(Tail(script), calls, batches)
    ELSE [res |-> Head(script).k, calls |-> calls, batches |-> batches,
          panic |-> TRUE]

\* The socket before the call: last.arg holds what its receive calls are
\* going to return.
InitRecv ==
    /\ connections = EmptyMap
    /\ outbound = <<>>
    /\ buf = <<>>
    /\ endpoint_events = <<>>
    /\ \E script \in RecvScripts :
         last = [op |-> "new", h |-> 0, res |-> "", out |-> <<>>,
                 arg |-> Some(script), prev |-> "", log |-> <<>>,
                 polled |-> <<>>, delivered |-> <<>>, due |-> {}, calls |-> <<>>,
                 errs |-> {}]
    /\ panicked = FALSE
    /\ build = "debug"
    /\ now = 0
    /\ loop = LoopNew
    /\ connection_events = EmptyMap

\* a call of recv_all, or a pass of main's receive loop, on the socket;
\* last keeps what the socket returned, the calls of f and the batches
\* received
Received(op, r) ==
    /\ last' = [Called(op, 0, r.res, r.calls) EXCEPT
                   !.arg = last.arg, !.log = r.batches]
    /\ panicked' = r.panic

RecvAllCall ==
    /\ ~panicked
    /\ last.op = "new"
    /\ Received("recv_all", RecvAll(Unwrap(last.arg), <<>>, <<>>))
    /\ UNCHANGED <<connections, outbound, buf, endpoint_events, build, loopvars>>

MainRecvCall ==
    /\ ~panicked
    /\ last.op = "new"
    /\ Received("main_recv", MainRecv(Unwrap(last.arg), <<>>, <<>>))
    /\ UNCHANGED <<connections, outbound, buf, endpoint_events, build, loopvars>>

NextRecv == RecvAllCall \/ MainRecvCall

SpecRecv == InitRecv /\ [][NextRecv]_vars

\* the calls of f that one slot is to give: ceil(len / stride) slices, one
\* after the other
Ceil(len, stride) == (len + stride - 1) \div stride

Slices(meta) ==
    [i \in 1..Ceil(meta.len, meta.stride) |->
        [bytes |-> SubSeq(SlotData(meta), (i - 1) * meta.stride + 1,
                          Min(i * meta.stride, meta.len)),
         meta |-> meta]]

\* C16: the calls of f are, batch by batch in the order received and slot
\* by slot in slot order, the ceil(len / stride) consecutive slices of the
\* slot, each stride long but for a shorter last one, each with the slot's
\* metadata.
C16_SplitByStride ==
    last.op \in {"recv_all", "main_recv"}
    => last.out = Concat([b \in DOMAIN last.log |->
                            Concat([s \in DOMAIN last.log[b] |->
                                      Slices(last.log[b][s])])])

\* recv_all received a batch of two slots, the first of five bytes with
\* stride two, and called f with two, two and one byte of it and then with
\* the second slot's bytes.
C16_Witness ==
    /\ last.op = "recv_all"
    /\ Len(last.log) = 2
    /\ Len(last.log[1]) = 2
    /\ last.log[1][1].len = 5 /\ last.log[1][1].stride = 2
    /\ last.log[1][2].len = 3 /\ last.log[1][2].stride = 3
    /\ Len(last.out) >= 5
    /\ Len(last.out[3].bytes) = 1
    /\ last.out[4].meta.addr = 2

\* the index of the first receive call that returned neither a batch nor
\* ConnectionReset; one past the end when there is none
RECURSIVE FirstStop(_, _)
FirstStop(script, i) ==
    IF i > Len(script) \/ script[i].k \notin {"Ok", "ConnectionReset"} THEN i
    ELSE FirstStop(script, i + 1)

\* the batches script returns before index n
BatchesBefore(script, n) ==
    LET oks == SelectSeq(SubSeq(script, 1, n - 1), LAMBDA r : r.k = "Ok")
    IN  [i \in DOMAIN oks |-> oks[i].metas]

\* C19: recv_all passes over a ConnectionReset and goes on receiving: it
\* receives every batch up to the first WouldBlock or other error, returns
\* Ok when it stopped for WouldBlock (or the socket had nothing more), and
\* returns the error otherwise.
C19_ResetSkipped ==
    last.op = "recv_all"
    => LET script == Unwrap(last.arg)
           stop == FirstStop(script, 1)
       IN  /\ last.log = BatchesBefore(script, stop)
           /\ last.res = IF stop > Len(script) \/ script[stop].k = "WouldBlock"
                         THEN "Ok" ELSE script[stop].k

(***************************************************************************)
(* Properties of handle_recv.                                              *)
(***************************************************************************)
\* handle_recv was called and endpoint.handle returned an event of kind k
RecvCalledWith(k) ==
    last.op = "handle_recv" /\ IsSome(last.arg) /\ Unwrap(last.arg).k = k

\* C17: a ConnectionEvent(handle, ev) returned by endpoint.handle is, before
\* handle_recv returns, handed to the connection of the session stored under
\* handle, and every other session, that session's request and the outbound
\* queue stay as they were; when handle is not in the map nothing changes.
C17_EventToItsSession ==
    [][RecvCalledWith("ConnectionEvent")' =>
         LET h == Unwrap(last'.arg).handle
             ev == Unwrap(last'.arg).event
         IN  /\ outbound' = outbound
             /\ DOMAIN connections' = DOMAIN connections
             /\ \A x \in DOMAIN connections :
                   /\ connections'[x].request = connections[x].request
                   /\ connections'[x].inner =
                         IF x = h THEN ConnectionHandleEvent(connections[x].inner, ev)
                         ELSE connections[x].inner]_vars

\* A stream chunk for session 2 was handed to it, and session 1, which
\* has its handshake behind it, was left alone.
C17_Witness ==
    /\ RecvCalledWith("ConnectionEvent")
    /\ Unwrap(last.arg).handle = 2
    /\ Unwrap(last.arg).event.k = "StreamData"
    /\ DOMAIN connections = Handles
    /\ connections[2].inner.uni_in.q # <<>>
    /\ connections[1].inner.uni_in.q = <<>>
    /\ connections[1].request.inner.tag = "Completed"

\* C18: when endpoint.accept succeeds, the map gains exactly the session of
\* the returned handle, with a new request in state Settings, and the
\* outbound queue stays as it was; when it fails, the map stays as it was
\* and the outbound queue gains the response, if the endpoint made one, and
\* nothing otherwise.
C18_NewConnection ==
    [][RecvCalledWith("NewConnection")' =>
         LET accept == Unwrap(last'.arg).accept
         IN  IF accept.ok
             THEN /\ accept.handle \notin DOMAIN connections
                  /\ DOMAIN connections' = DOMAIN connections \cup {accept.handle}
                  /\ \A x \in DOMAIN connections : connections'[x] = connections[x]
                  /\ connections'[accept.handle].inner = accept.connection
                  /\ connections'[accept.handle].request = RequestNew
                  /\ connections'[accept.handle].request.inner.tag = "Settings"
                  /\ outbound' = outbound
             ELSE /\ connections' = connections
                  /\ IF IsSome(accept.response)
                     THEN outbound' =
                             Append(outbound,
                                    [transmit |-> Unwrap(accept.response),
                                     payload |-> SubSeq(accept.bytes, 1,
                                                        Unwrap(accept.response).size)])
                     ELSE outbound' = outbound]_vars

\* An accept failed while a session was in the map, and the response the
\* endpoint made is the last entry of the outbound queue.
C18_Witness ==
    /\ RecvCalledWith("NewConnection")
    /\ ~Unwrap(last.arg).accept.ok
    /\ IsSome(Unwrap(last.arg).accept.response)
    /\ DOMAIN connections # {}
    /\ outbound # <<>>
    /\ outbound[Len(outbound)].transmit = Unwrap(Unwrap(last.arg).accept.response)

\* The event loop keeps running and time keeps passing: every step of the
\* loop that can be taken is taken, poll returns once its wait has passed,
\* and the clock goes on up to MaxTime.  Nothing makes a datagram arrive.
\* handle_process can be called whenever the loop has come to it and has
\* not panicked, so its weak fairness is that the loop does not stay there.
FairLoop ==
    /\ SpecLoop
    /\ WF_vars(LoopCompute)
    /\ WF_vars(LoopPollTimeout)
    /\ []<>(loop.pc # "process" \/ panicked)
    /\ WF_vars(LoopSend)
    /\ WF_vars(Tick)

\* C20: a session whose handshake is completed is removed from the map in
\* the end, once nothing arrives any more: its idle timer expires, the loop
\* wakes, handle_process finds the connection drained and drops the
\* session; and nothing on the way panics.
C20_IdleSessionRemoved ==
    \A h \in Handles :
       (h \in DOMAIN connections /\ Completed(h))
          ~> (h \notin DOMAIN connections /\ ~panicked)

(***************************************************************************)
(* Errors of update, and the two halves of Settings.                       *)
(***************************************************************************)
\* The errors update returns while a stream is only blocked: nothing to
\* read yet (ReadError::Blocked) or no credit to write (WriteError::Blocked).
BlockedErrors == {"ReadError", "WriteError"}

\* update has just returned res on the session of handle h, which is in
\* state tag
UpdateReturned(h, res, tag) ==
    /\ last.op = "update" /\ last.h = h /\ last.res = res
    /\ h \in DOMAIN connections
    /\ Tag(h) = tag

MaxMarks == 3

EcnNames == {"Ect0", "Ect1", "Ce"}

\* quinn_udp::EcnCodepoint and quinn_proto::EcnCodepoint
UdpEcnCodepoint(name) == [crate |-> "quinn_udp", name |-> name]
ProtoEcnCodepoint(name) == [crate |-> "quinn_proto", name |-> name]

proto_ecn(ecn) ==
    CASE ecn = UdpEcnCodepoint("Ect0") -> ProtoEcnCodepoint("Ect0")
      [] ecn = UdpEcnCodepoint("Ect1") -> ProtoEcnCodepoint("Ect1")
      [] ecn = UdpEcnCodepoint("Ce") -> ProtoEcnCodepoint("Ce")

\* A faulty variant of udp_ecn, with two arms exchanged.
UdpEcnSwapped(ecn) ==
    CASE ecn = ProtoEcnCodepoint("Ect0") -> UdpEcnCodepoint("Ect1")
      [] ecn = ProtoEcnCodepoint("Ect1") -> UdpEcnCodepoint("Ect0")
      [] ecn = ProtoEcnCodepoint("Ce") -> UdpEcnCodepoint("Ce")

udp_ecn(ecn) ==
    CASE ecn = ProtoEcnCodepoint("Ect0") -> UdpEcnCodepoint("Ect0")
      [] ecn = ProtoEcnCodepoint("Ect1") -> UdpEcnCodepoint("Ect1")
      [] ecn = ProtoEcnCodepoint("Ce") -> UdpEcnCodepoint("Ce")

\* meta.ecn.map(util::proto_ecn) and transmit.ecn.map(util::udp_ecn), for a
\* run of datagrams
MapProtoEcn(marks) ==
    [i \in DOMAIN marks |->
        IF IsSome(marks[i]) THEN Some(proto_ecn(Unwrap(marks[i]))) ELSE None]

MapUdpEcn(marks) ==
    [i \in DOMAIN marks |->
        IF IsSome(marks[i]) THEN Some(udp_ecn(Unwrap(marks[i]))) ELSE None]

\* the marks of up to MaxMarks datagrams, all of one library
MarksOf(codepoints) ==
    UNION {[1..n -> {None} \cup {Some(x) : x \in codepoints}] : n \in 1..MaxMarks}

UdpMarks == MarksOf({UdpEcnCodepoint(n) : n \in EcnNames})
ProtoMarks == MarksOf({ProtoEcnCodepoint(n) : n \in EcnNames})

\* last.out holds marks still to be converted
InitEcn ==
    /\ connections = EmptyMap
    /\ outbound = <<>>
    /\ buf = <<>>
    /\ endpoint_events = <<>>
    /\ \E marks \in UdpMarks \cup ProtoMarks :
         last = [op |-> "new", h |-> 0, res |-> "", out |-> marks,
                 arg |-> None, prev |-> "", log |-> <<>>,
                 polled |-> <<>>, delivered |-> <<>>, due |-> {}, calls |-> <<>>,
                 errs |-> {}]
    /\ panicked = FALSE
    /\ build = "debug"
    /\ now = 0
    /\ loop = LoopNew
    /\ connection_events = EmptyMap

\* the marks the last step left are converted; last keeps them as arg and
\* the result as out
ProtoEcnCall ==
    /\ last.out \in UdpMarks
    /\ last' = [Called("proto_ecn", 0, "", MapProtoEcn(last.out)) EXCEPT
                   !.arg = Some(last.out)]
    /\ UNCHANGED <<connections, outbound, buf, endpoint_events, panicked, build,
                   loopvars>>

UdpEcnCall ==
    /\ last.out \in ProtoMarks
    /\ last' = [Called("udp_ecn", 0, "", MapUdpEcn(last.out)) EXCEPT
                   !.arg = Some(last.out)]
    /\ UNCHANGED <<connections, outbound, buf, endpoint_events, panicked, build,
                   loopvars>>

NextEcn == ProtoEcnCall \/ UdpEcnCall

SpecEcn == InitEcn /\ [][NextEcn]_vars

\* C22: proto_ecn and udp_ecn are defined on every codepoint, give the
\* codepoint of the same name in the other library, and undo each other:
\* converting what the other conversion returned gives back what that one
\* was given.
C22_EcnInverse ==
    [][/\ last'.op \in {"proto_ecn", "udp_ecn"}
          => /\ Len(last'.out) = Len(Unwrap(last'.arg))
             /\ \A i \in DOMAIN last'.out :
                   /\ IsSome(last'.out[i]) <=> IsSome(Unwrap(last'.arg)[i])
                   /\ IsSome(last'.out[i])
                      => /\ Unwrap(last'.out[i]).name = Unwrap(Unwrap(last'.arg)[i]).name
                         /\ Unwrap(last'.out[i]).crate
                               = (IF last'.op = "proto_ecn" THEN "quinn_proto"
                                  ELSE "quinn_udp")
       /\ (last.op \in {"proto_ecn", "udp_ecn"} /\ last'.op # last.op)
          => last'.out = Unwrap(last.arg)]_vars

\* Ect0, Ect1 and Ce went through proto_ecn and came back through udp_ecn.
C22_Witness ==
    /\ last.op = "udp_ecn"
    /\ last.out = <<Some(UdpEcnCodepoint("Ect0")), Some(UdpEcnCodepoint("Ect1")),
                    Some(UdpEcnCodepoint("Ce"))>>
    /\ last.arg = Some(MapProtoEcn(last.out))

\* what Settings::update leaves behind when it is called on the session of
\* handle h as it is now
SettingsAfter(h) ==
    SettingsUpdate(connections[h].request.inner, connections[h].inner,
                   connections[h].request.data_buf)

\* C23: a request in Settings leaves that state only in an update call at
\* whose end send_done and recv_done are both true; while it stays, a flag
\* that is true remains true, and update does not attempt a half that is
\* done: it writes nothing on the server's control stream when send_done
\* was true, and reads nothing from the peer's when recv_done was true.
C23_BothHalves ==
    [][\A h \in DOMAIN connections \cap DOMAIN connections' :
         Tag(h) = "Settings" =>
            LET st == connections[h].request.inner
                c == connections[h].inner
                st1 == connections'[h].request.inner
                c1 == connections'[h].inner
            IN  /\ Tag(h)' # "Settings"
                   => /\ UpdateCalled(h)'
                      /\ SettingsAfter(h).err = ""
                      /\ SettingsAfter(h).st.send_done
                      /\ SettingsAfter(h).st.recv_done
                /\ Tag(h)' = "Settings"
                   => /\ (st.send_done => st1.send_done)
                      /\ (st.recv_done => st1.recv_done)
                /\ (UpdateCalled(h)' /\ st.send_done)
                   => /\ c1.uni_out = c.uni_out
                      /\ c1.credit = c.credit
                /\ (UpdateCalled(h)' /\ st.recv_done)
                   => /\ c1.uni_in = c.uni_in
                      /\ Tag(h)' = "Settings"
                         => connections'[h].request.data_buf
                               = connections[h].request.data_buf]_vars

\* update has returned on a request whose receive half is done and whose
\* send half has written a part of the frame: it is still in Settings.
C23_Witness ==
    /\ UpdateCalled(1)
    /\ Tag(1) = "Settings"
    /\ connections[1].request.inner.recv_done
    /\ ~connections[1].request.inner.send_done
    /\ connections[1].request.inner.send_bytes > 0

\* C24: while a request is in Settings, send_bytes never decreases and
\* never exceeds the length of the encoded SETTINGS frame, the bytes written
\* on the server's control stream are the first send_bytes bytes of the
\* frame, and send_done is true exactly when send_bytes is that length;
\* after Settings the whole frame, and nothing else, has been written.
C24_SendOffset ==
    [][\A h \in DOMAIN connections' :
         LET st1 == connections'[h].request.inner
             c1 == connections'[h].inner
         IN  IF st1.tag = "Settings"
             THEN /\ st1.send_bytes <= Len(SETTINGS_ENCODED)
                  /\ c1.uni_out.written = SubSeq(SETTINGS_ENCODED, 1, st1.send_bytes)
                  /\ (st1.send_done <=> st1.send_bytes = Len(SETTINGS_ENCODED))
                  /\ (h \in DOMAIN connections
                      => connections[h].request.inner.send_bytes <= st1.send_bytes)
             ELSE c1.uni_out.written = SETTINGS_ENCODED]_vars

\* the frame has gone out in at least two writes, and one byte is left
C24_Witness ==
    /\ UpdateCalled(1)
    /\ Tag(1) = "Settings"
    /\ connections[1].request.inner.send_bytes = Len(SETTINGS_ENCODED) - 1
    /\ connections[1].inner.credit = 0
    /\ connections[1].inner.uni_out.written
          = SubSeq(SETTINGS_ENCODED, 1, Len(SETTINGS_ENCODED) - 1)

\* C25: nothing is written on the CONNECT stream before respond() (in
\* Settings, in Connect, and in Response while data_buf is empty); in
\* Response an update call appends to the stream some first bytes of
\* data_buf[send_bytes..] and adds their number to send_bytes, so that the
\* stream holds data_buf[..send_bytes]; the request becomes Completed only
\* in an update call in Response, exactly when the last byte of data_buf
\* has been written, and that call returns ResponseSent with the id of the
\* accepted CONNECT stream.
C25_ResponseFlushed ==
    [][\A h \in DOMAIN connections \cap DOMAIN connections' :
         LET req == connections[h].request
             c == connections[h].inner
             req1 == connections'[h].request
             c1 == connections'[h].inner
             rest == After(req.data_buf, req.inner.send_bytes)
         IN  /\ (\/ req1.inner.tag \in {"Settings", "Connect"}
                 \/ req1.inner.tag = "Response" /\ req1.data_buf = <<>>)
                => c1.bi.written = <<>>
             /\ (req1.inner.tag = "Completed" /\ req.inner.tag # "Completed")
                => req.inner.tag = "Response" /\ UpdateCalled(h)'
             /\ (UpdateCalled(h)' /\ last'.res = "ResponseSent")
                => req.inner.tag = "Response" /\ req1.inner.tag = "Completed"
             /\ (UpdateCalled(h)' /\ req.inner.tag = "Response")
                => \E n \in 0..Len(rest) :
                      /\ c1.bi.written = c.bi.written \o SubSeq(rest, 1, n)
                      /\ c1.bi.written
                            = SubSeq(req.data_buf, 1, req.inner.send_bytes + n)
                      /\ req1.inner.tag = "Completed"
                         <=> (req.data_buf # <<>> /\ n = Len(rest))
                      /\ req1.inner.tag = "Completed"
                         => /\ last'.res = "ResponseSent"
                            /\ last'.out = Some(req.inner.send_id)
                            /\ req.inner.send_id = StreamId(0, 0, 0)
                            /\ c.bi.accepted
                      /\ req1.inner.tag = "Response"
                         => /\ req1.inner.send_bytes = req.inner.send_bytes + n
                            /\ req1.data_buf = req.data_buf
                            /\ req1.inner.send_id = req.inner.send_id]_vars

\* respond(200) was called once, and all of the response but its last byte
\* has been written
C25_Witness ==
    /\ UpdateCalled(1)
    /\ Tag(1) = "Response"
    /\ connections[1].request.data_buf = ResponseEncode(200)
    /\ connections[1].request.inner.send_bytes = Len(ResponseEncode(200)) - 1
    /\ connections[1].inner.bi.written
          = SubSeq(ResponseEncode(200), 1, Len(ResponseEncode(200)) - 1)
    /\ last.res = "Waiting"

\* C26: the stream id kept in Connect, the send_id of Response and the
\* session_id of Completed are all the id of the bidirectional stream the
\* request accepted; the datagram_header of Completed is the varint
\* encoding of session_id and is 1 byte long.
C26_SessionId ==
    \A h \in DOMAIN connections :
        LET st == connections[h].request.inner
            c == connections[h].inner
        IN  /\ (st.tag = "Connect" /\ st.stream_id # None)
               => st.stream_id = Some(StreamId(0, 0, 0)) /\ c.bi.accepted
            /\ st.tag = "Response"
               => st.send_id = StreamId(0, 0, 0) /\ c.bi.accepted
            /\ st.tag = "Completed"
               => /\ st.session_id = StreamId(0, 0, 0)
                  /\ c.bi.accepted
                  /\ st.datagram_header = VarIntEncode(st.session_id)
                  /\ Len(st.datagram_header) = 1

\* update has just returned ResponseSent with the session id
C26_Witness ==
    /\ UpdateCalled(1)
    /\ last.res = "ResponseSent"
    /\ Completed(1)
    /\ last.out = Some(connections[1].request.inner.session_id)
    /\ connections[1].request.inner.datagram_header = <<0>>

(***************************************************************************)
(* The calls made inside one handle_process.                               *)
(***************************************************************************)
\* the calls of the kinds ops made for handle h, in the order they were made
CallsOf(calls, h, ops) == SelectSeq(calls, LAMBDA e : e.h = h /\ e.op \in ops)

\* the calls of the pump of handle h
PumpCallsOf(calls, h) == CallsOf(calls, h, {"poll_transmit", "handle_timeout"})

\* how many of the calls of h are calls of op
CountOf(calls, h, op) == Len(CallsOf(calls, h, {op}))

\* C27: in every handle_process, for every session of the map, the calls
\* of the pump are poll_transmit and handle_timeout in turn, beginning with
\* poll_transmit and ending with handle_timeout: as many handle_timeout
\* calls as poll_transmit calls, at least one and at most MAX_TRANSMIT_OPS,
\* and a handle_timeout between any two poll_transmit calls.
C27_TimeoutAfterEachPoll ==
    [][(last'.op = "handle_process" /\ ~panicked') =>
         \A h \in DOMAIN connections :
            LET cs == PumpCallsOf(last'.calls, h)
            IN  /\ \A i \in DOMAIN cs :
                      cs[i].op = IF i % 2 = 1 THEN "poll_transmit"
                                 ELSE "handle_timeout"
                /\ CountOf(last'.calls, h, "handle_timeout")
                      = CountOf(last'.calls, h, "poll_transmit")
                /\ CountOf(last'.calls, h, "handle_timeout") >= 1
                /\ CountOf(last'.calls, h, "handle_timeout") <= MAX_TRANSMIT_OPS
                /\ \E i \in DOMAIN last'.log :
                      /\ last'.log[i].h = h
                      /\ last'.log[i].polls
                            = CountOf(last'.calls, h, "poll_transmit")]_vars

\* a session was pumped with one batch queued: poll_transmit, handle_timeout,
\* the poll_transmit that yields nothing, handle_timeout
C27_Witness ==
    /\ last.op = "handle_process"
    /\ ~panicked
    /\ 1 \in DOMAIN connections
    /\ Len(PumpCallsOf(last.calls, 1)) = 4
    /\ CountOf(last.calls, 1, "handle_timeout") = 2
    /\ PumpCallsOf(last.calls, 1)[3].op = "poll_transmit"
    /\ PumpCallsOf(last.calls, 1)[4].op = "handle_timeout"
    /\ connections[1].inner.txq = <<>>
    /\ EntriesFor(outbound, 1) # <<>>

\* the calls handle_process makes in its first loop, and in its second
SessionOps == {"update", "poll_transmit", "handle_timeout"}
EventOps == {"remove", "endpoint.handle_event", "handle_event"}

\* C28: in one handle_process every session of the map is updated and
\* pumped before the first pending endpoint event is handled, and every
\* polled event is handled in that call; poll_transmit is called, and
\* outbound entries are added, only for the sessions in the map at the start
\* of the call, and a connection whose drained event was handled is not in
\* the map afterwards, so it is never polled again.
C28_SessionsBeforeEvents ==
    [][(last'.op = "handle_process" /\ ~panicked') =>
         /\ \A i, j \in DOMAIN last'.calls :
               (/\ last'.calls[i].op \in SessionOps
                /\ last'.calls[j].op \in EventOps) => i < j
         /\ \A i \in DOMAIN last'.calls :
               /\ last'.calls[i].op \in SessionOps \cup EventOps
               /\ last'.calls[i].op \in SessionOps
                  => last'.calls[i].h \in DOMAIN connections
         /\ \A h \in DOMAIN connections :
               CountOf(last'.calls, h, "poll_transmit") >= 1
         /\ SelectSeq(last'.calls, LAMBDA e : e.op = "endpoint.handle_event")
               = [i \in DOMAIN last'.polled |->
                     ServerCall("endpoint.handle_event", last'.polled[i][1], None)]
         /\ endpoint_events' = <<>>
         /\ \A h \in DrainedIn(last'.polled) :
               /\ h \in DOMAIN connections
               /\ h \notin DOMAIN connections'
         /\ \A i \in Len(outbound) + 1 .. Len(outbound') :
               outbound'[i].transmit.destination \in DOMAIN connections]_vars

\* two sessions were pumped, then the drained event of the first one was
\* handled
C28_Witness ==
    /\ last.op = "handle_process"
    /\ ~panicked
    /\ Len(last.log) = 2
    /\ 1 \in DrainedIn(last.polled)
    /\ DOMAIN connections = {2}
    /\ CountOf(last.calls, 1, "poll_transmit") >= 1
    /\ CountOf(last.calls, 2, "poll_transmit") >= 1
    /\ last.calls[Len(last.calls)] = ServerCall("endpoint.handle_event", 1, None)

\* the calls of the second loop of the last handle_process
EventCalls(calls) == SelectSeq(calls, LAMBDA e : e.op \in EventOps)

\* the handles of the calls of op, in the order of the calls
HandlesOf(calls, op) ==
    [i \in 1..Len(SelectSeq(calls, LAMBDA e : e.op = op)) |->
        SelectSeq(calls, LAMBDA e : e.op = op)[i].h]

\* C29: in the second loop of handle_process a session is removed exactly
\* for the drained events, directly before endpoint.handle_event is called
\* for that event, and no connection event is delivered for it; a
\* connection event is delivered only directly after endpoint.handle_event
\* for an event which is not a drained one, only to the session of that
\* event's handle, and only if no drained event has removed it before.
C29_DrainedThenHandleEvent ==
    [][(last'.op = "handle_process" /\ ~panicked') =>
         LET ev == EventCalls(last'.calls)
             polled == last'.polled
         IN  /\ HandlesOf(ev, "endpoint.handle_event")
                   = [i \in DOMAIN polled |-> polled[i][1]]
             /\ HandlesOf(ev, "remove")
                   = [i \in 1..Len(SelectSeq(polled, LAMBDA p : p[2] = "Drained")) |->
                         SelectSeq(polled, LAMBDA p : p[2] = "Drained")[i][1]]
             /\ HandlesOf(ev, "handle_event") = last'.delivered
             /\ \A i \in DOMAIN ev :
                   /\ ev[i].op = "remove"
                      => /\ i < Len(ev)
                         /\ ev[i + 1] = ServerCall("endpoint.handle_event",
                                                   ev[i].h, None)
                         /\ (i + 2 <= Len(ev) => ev[i + 2].op # "handle_event")
                         /\ ev[i].h \notin DOMAIN connections'
                   /\ ev[i].op = "handle_event"
                      => /\ i > 1
                         /\ ev[i - 1] = ServerCall("endpoint.handle_event",
                                                   ev[i].h, None)
                         /\ (i > 2 => ev[i - 2].op # "remove")
                         /\ ev[i].h \in DOMAIN connections
                         /\ \A j \in 1..i : ~(ev[j].op = "remove" /\ ev[j].h = ev[i].h)]_vars

\* the drained event of one session and another event of the other session
\* were handled: the first session was removed, the connection event went
\* to the other
C29_Witness ==
    /\ last.op = "handle_process"
    /\ ~panicked
    /\ \E h \in Handles : \E g \in Handles \ {h} :
          /\ HandlesOf(EventCalls(last.calls), "remove") = <<h>>
          /\ last.delivered = <<g>>
          /\ DOMAIN connections = {g}
          /\ Len(EventCalls(last.calls)) = 4

\* the calls which write what they produce into the scratch buffer
BufOps == {"endpoint.handle", "endpoint.accept", "poll_transmit"}

\* C30: at every endpoint.handle, endpoint.accept and poll_transmit call
\* the scratch buffer is empty; handle_recv calls endpoint.handle once, and
\* endpoint.accept for a new connection, and handle_process polls every
\* session of the map.
C30_ScratchEmpty ==
    [][/\ \A i \in DOMAIN last'.calls :
             last'.calls[i].op \in BufOps => last'.calls[i].buf = <<>>
       /\ last'.op = "handle_recv"
          => /\ Len(SelectSeq(last'.calls, LAMBDA e : e.op = "endpoint.handle")) = 1
             /\ Len(SelectSeq(last'.calls, LAMBDA e : e.op = "endpoint.accept"))
                   = IF last'.res = "NewConnection" THEN 1 ELSE 0
       /\ (last'.op = "handle_process" /\ ~panicked')
          => \A h \in DOMAIN connections :
                /\ CountOf(last'.calls, h, "poll_transmit") >= 1
                /\ Len(AddedFor(h)) > 0
                   => CountOf(last'.calls, h, "poll_transmit") >= 2]_vars

\* two sessions were pumped in one tick: the first one transmitted a packet
\* and polled again, the second one was polled after it
C30_Witness ==
    /\ last.op = "handle_process"
    /\ ~panicked
    /\ Len(last.log) = 2
    /\ CountOf(last.calls, last.log[1].h, "poll_transmit") = 2
    /\ EntriesFor(outbound, last.log[1].h) # <<>>
    /\ CountOf(last.calls, last.log[2].h, "poll_transmit") >= 1
    /\ \A i \in DOMAIN last.calls :
          last.calls[i].op = "poll_transmit" => last.calls[i].buf = <<>>
    /\ buf = <<>>

(***************************************************************************)
(* The outbound queue filled by several producers: the pumps of two        *)
(* sessions, endpoint.handle and endpoint.accept, with up to MaxOutbound   *)
(* packets waiting.                                                        *)
(***************************************************************************)
HandleRecvOutbound ==
    /\ \E event \in DatagramEvents(Handles, "outbound") : HandleRecvOf(event)
    /\ UNCHANGED loopvars

NextOutbound == HandleRecvOutbound \/ HandleProcess \/ Outgoing

SpecOutbound == Init /\ [][NextOutbound]_vars

\* the entries appended to the outbound queue in this step
Added == SubSeq(outbound', Len(outbound) + 1, Len(outbound'))

\* C31: a call other than outgoing leaves every entry that is in the queue
\* as it is; the payloads handle_recv appends are the bytes endpoint.handle
\* or endpoint.accept wrote for the transmit, and the payloads
\* handle_process appends for a session are, in order, the bytes its
\* connection had queued and poll_transmit took.
C31_PayloadAsWritten ==
    [][/\ last'.op # "outgoing"
          => /\ Len(outbound') >= Len(outbound)
             /\ SubSeq(outbound', 1, Len(outbound)) = outbound
       /\ last'.op = "handle_recv"
          => LET ev == Unwrap(last'.arg)
             IN  CASE ev.k = "Response" ->
                         /\ Added # <<>>
                         /\ Payloads(Added, 1, Len(Added))
                               = SubSeq(ev.bytes, 1, ev.transmit.size)
                   [] ev.k = "NewConnection" /\ ~ev.accept.ok
                         /\ IsSome(ev.accept.response) ->
                         /\ Added # <<>>
                         /\ Payloads(Added, 1, Len(Added))
                               = SubSeq(ev.accept.bytes, 1,
                                        Unwrap(ev.accept.response).size)
                   [] OTHER -> Added = <<>>
       /\ (last'.op = "handle_process" /\ ~panicked')
          => /\ \A i \in DOMAIN Added :
                   Added[i].transmit.destination \in DOMAIN connections
             /\ \A h \in DOMAIN connections :
                   LET mine == Payloads(AddedFor(h), 1, Len(AddedFor(h)))
                       queued == Concat(connections[h].inner.txq)
                   IN  /\ IsPrefix(mine, queued)
                       /\ (/\ h \in DOMAIN connections'
                           /\ ~connections'[h].inner.drained)
                          => queued = mine
                                \o Concat(connections'[h].inner.txq)]_vars

\* with the response of a failed accept waiting in the queue, two sessions
\* were pumped and each added its packet behind it
C31_Witness ==
    /\ last.op = "handle_process"
    /\ Len(last.log) = 2
    /\ Len(outbound) = 3
    /\ outbound[1].payload = <<8>>
    /\ \E h \in Handles : \E g \in Handles \ {h} :
          /\ outbound[2].transmit.destination = h
          /\ outbound[2].payload = <<8 + h>>
          /\ outbound[3].transmit.destination = g
          /\ outbound[3].payload = <<8 + g>>

\* C32: a push of a transmit of n bytes with segment_size s appends
\* ceil(n / s) entries, the i-th with the bytes (i - 1) * s + 1 .. min(i * s, n)
\* of the scratch buffer, their number as its size, no segment_size and the
\* destination, ecn and src_ip of the transmit; without segment_size it
\* appends the transmit as it is with scratch[..n]; the entries which were
\* in the queue stay, and the scratch buffer is empty afterwards.
C32_PushSplits ==
    [][last'.op = "push" =>
         LET transmit == last'.out[1]
             scratch == last'.out[2]
             n == transmit.size
         IN  /\ SubSeq(outbound', 1, Len(outbound)) = outbound
             /\ buf' = <<>>
             /\ transmit.segment_size = None
                => Added = <<[transmit |-> transmit,
                              payload |-> SubSeq(scratch, 1, n)]>>
             /\ transmit.segment_size # None
                => LET s == Unwrap(transmit.segment_size)
                   IN  /\ Len(Added) = Ceil(n, s)
                       /\ \A i \in DOMAIN Added :
                             /\ Added[i].payload
                                   = SubSeq(scratch, (i - 1) * s + 1, Min(i * s, n))
                             /\ Added[i].transmit
                                   = [destination |-> transmit.destination,
                                      size |-> Len(Added[i].payload),
                                      ecn |-> transmit.ecn,
                                      segment_size |-> None,
                                      src_ip |-> transmit.src_ip]]_vars

\* a push of four bytes with an ECN mark in segments of three, behind an
\* entry which was in the queue: an entry of three bytes and one of one
C32_Witness ==
    /\ last.op = "push"
    /\ last.h = 1
    /\ last.out[1].segment_size = Some(3)
    /\ last.out[1].size = 4
    /\ last.out[1].ecn = Some(1)
    /\ Len(outbound) = 3
    /\ outbound[2].payload = <<1, 2, 3>>
    /\ outbound[3].payload = <<4>>
    /\ outbound[3].transmit.ecn = Some(1)
    /\ buf = <<>>

(***************************************************************************)
(* An iteration of the event loop under traffic: the receive loop hands    *)
(* every datagram the socket holds to handle_recv, handle_process follows, *)
(* and the loop over server.outgoing() ends the iteration.                 *)
(***************************************************************************)
\* the receive loop: one more datagram was read from the socket
SendLoopRecv ==
    /\ loop.pc \in {"compute", "poll"}
    /\ \E event \in DatagramEvents(Handles, "outbound") : HandleRecvOf(event)
    /\ loop' = [loop EXCEPT !.pc = "poll"]
    /\ UNCHANGED <<now, connection_events>>

\* the receive would block: the receive loop ends and handle_process runs
SendLoopProcess ==
    /\ loop.pc \in {"compute", "poll"}
    /\ \E due \in SUBSET DOMAIN connections : HandleProcessAt(due)
    /\ loop' = [loop EXCEPT !.pc = "send"]
    /\ UNCHANGED <<now, connection_events>>

\* the loop over server.outgoing(), which ends the iteration
SendLoopSend ==
    /\ loop.pc = "send"
    /\ SendOutgoing
    /\ loop' = [loop EXCEPT !.pc = "compute"]
    /\ UNCHANGED <<now, connection_events>>

NextSend == SendLoopRecv \/ SendLoopProcess \/ SendLoopSend

SpecSend == Init /\ [][NextSend]_vars

\* C33: the send loop of an iteration passes every entry of the outbound
\* queue to the socket once, in the order of the queue, whatever the sends
\* return, and leaves the queue empty, so that no entry is sent again; the
\* queue is empty at the end of every iteration.
C33_SentOnce ==
    [][/\ last'.op = "outgoing"
          => /\ outbound' = <<>>
             /\ Len(last'.log) = Len(outbound)
             /\ \A i \in DOMAIN outbound :
                   /\ last'.log[i].entry = outbound[i]
                   /\ last'.log[i].res \in SendResults
       /\ loop'.pc = "compute" => outbound' = <<>>
       /\ (loop.pc = "send" /\ loop'.pc # "send")
          => (last'.op = "outgoing" /\ loop'.pc = "compute")]_vars

\* the queue held two entries: the send of the first would have blocked,
\* the second was sent, and the queue is empty
C33_Witness ==
    /\ last.op = "outgoing"
    /\ loop.pc = "compute"
    /\ Len(last.log) = 2
    /\ last.log[1].res = "WouldBlock"
    /\ last.log[2].res = "Ok"
    /\ last.log[1].entry # last.log[2].entry
    /\ outbound = <<>>


(***************************************************************************)
(* The streams of the handshake.                                           *)
(***************************************************************************)
\* an id that has been set stays what it is
Kept(id, id1) == IsSome(id) => id1 = id

\* C34: each sub-state of the handshake binds its streams once.  Settings
\* opens its send stream and accepts its receive stream only while it holds
\* no id for them, Connect accepts its stream only while it holds none, an id
\* that is set is never replaced, and Response writes on the stream Connect
\* accepted: its send_id is that stream's id, and the bytes of a response go
\* to that stream and to no other.
C34_StreamsBoundOnce ==
    [][\A h \in DOMAIN connections \cap DOMAIN connections' :
         LET req == connections[h].request.inner
             req1 == connections'[h].request.inner
             c == connections[h].inner
             c1 == connections'[h].inner
         IN  /\ (req.tag = "Settings" /\ req1.tag = "Settings")
                => /\ Kept(req.send_id, req1.send_id)
                   /\ Kept(req.recv_id, req1.recv_id)
             /\ (req.tag = "Connect" /\ req1.tag = "Connect")
                => Kept(req.stream_id, req1.stream_id)
             /\ (req.tag = "Connect" /\ req1.tag = "Response")
                => (IsSome(req.stream_id)
                      => req1.send_id = Unwrap(req.stream_id))
             /\ (req.tag = "Response" /\ req1.tag = "Response")
                => req1.send_id = req.send_id
             /\ (c1.uni_out.open # c.uni_out.open)
                => /\ req.tag = "Settings" /\ req.send_id = None
                   /\ req1.tag = "Settings"
                      => req1.send_id = Some(StreamId(1, 1, 0))
             /\ (c1.uni_in.accepted # c.uni_in.accepted)
                => /\ req.tag = "Settings" /\ req.recv_id = None
                   /\ req1.tag = "Settings"
                      => req1.recv_id = Some(StreamId(0, 1, 0))
             /\ (c1.bi.accepted # c.bi.accepted)
                => /\ req.tag \in {"Settings", "Connect"}
                   /\ req.tag = "Connect" => req.stream_id = None
                   /\ req1.tag = "Connect"
                      => req1.stream_id = Some(StreamId(0, 0, 0))
             /\ req1.tag = "Response"
                => (c1.bi.accepted /\ req1.send_id = StreamId(0, 0, 0))
             /\ (c1.bi.written # c.bi.written)
                => /\ req.tag = "Response"
                   /\ c1.uni_out.written = c.uni_out.written]_vars

\* update was called on a Connect that had accepted its stream in an earlier
\* call, and again on the Response that followed: the response went to the
\* stream Connect accepted
C34_Witness ==
    \E h \in DOMAIN connections :
        /\ Tag(h) \in {"Response", "Completed"}
        /\ last.op = "update" /\ last.h = h
        /\ connections[h].inner.bi.accepted
        /\ connections[h].inner.uni_out.open
        /\ connections[h].inner.uni_in.accepted
        /\ connections[h].inner.bi.written # <<>>
        /\ Len(connections[h].inner.bi.sent) > 1


(***************************************************************************)
(* The handshake of one session under handle_process: the peer's frames    *)
(* arrive chunk by chunk, send credit and the right to open a stream       *)
(* arrive when the peer grants them, and the event loop keeps calling      *)
(* handle_process.                                                         *)
(***************************************************************************)
\* the receive loop hands one more datagram to handle_recv
HandshakeRecv ==
    /\ loop.pc \in {"compute", "process"}
    /\ \E event \in DatagramEvents({1}, "request") : HandleRecvOf(event)
    /\ loop' = [loop EXCEPT !.pc = "process"]
    /\ UNCHANGED <<now, connection_events>>

\* poll returns though no datagram has arrived
HandshakeWake ==
    /\ loop.pc = "compute"
    /\ ~panicked
    /\ loop' = [loop EXCEPT !.pc = "process"]
    /\ last' = Called("poll", 0, "timeout", <<>>)
    /\ UNCHANGED <<connections, outbound, buf, endpoint_events, panicked, build,
                   now, connection_events>>

\* server.handle_process, and the head of the loop again
HandshakeProcess ==
    /\ loop.pc = "process"
    /\ \E due \in SUBSET DOMAIN connections : HandleProcessAt(due)
    /\ loop' = [loop EXCEPT !.pc = "compute"]
    /\ UNCHANGED <<now, connection_events>>

NextHandshake == HandshakeRecv \/ HandshakeWake \/ HandshakeProcess

SpecHandshake == Init /\ [][NextHandshake]_vars

\* The event loop never stops: poll returns again and again, and
\* handle_process, which can be called whenever the loop has come to it and
\* has not panicked, is called each time.
FairHandshake ==
    /\ SpecHandshake
    /\ WF_vars(HandshakeWake)
    /\ []<>(loop.pc # "process" \/ panicked)


\* the peer's SETTINGS, with WebTransport enabled, and its extended CONNECT
\* have arrived in full on the session of handle 1
Arrived ==
    /\ 1 \in DOMAIN connections
    /\ connections[1].inner.uni_in.sent = SettingsEncode(1)
    /\ connections[1].inner.bi.sent = ConnectEncode(1, 1, 7)

\* flow control accepts bytes of the session of handle 1, or there is
\* nothing left to send
Accepting ==
    /\ 1 \in DOMAIN connections
    /\ \/ Completed(1)
       \/ /\ connections[1].inner.uni_out.allowed
          /\ connections[1].inner.credit > 0

\* C35: when the peer's SETTINGS and CONNECT have arrived in full on a
\* session that stays, and flow control keeps accepting the server's bytes
\* until all are written, the session reaches Completed, and stays there,
\* under the repeated calls of handle_process, whatever had or had not
\* arrived at the calls before.
C35_EventuallyCompleted ==
    (<>[]Arrived /\ []<>Accepting) => <>[](1 \in DOMAIN connections /\ Completed(1))

\* the handshake was completed by a call of handle_process which found the
\* request in Response: a call before it had to wait
C35_Witness ==
    /\ 1 \in DOMAIN connections
    /\ Completed(1)
    /\ last.op = "handle_process"
    /\ \E i \in DOMAIN last.log :
          /\ last.log[i].h = 1
          /\ last.log[i].results = <<"ResponseSent", "Completed">>


\* how many times x stands in the sequence s
Times(s, x) == Cardinality({i \in DOMAIN s : s[i] = x})

\* C36: the handshake loop of a call of handle_process ends after at most
\* three calls of update.  update returns ConnectData only to a request that
\* is in Settings or Connect and leaves it in Response or beyond, and
\* ResponseSent only to a request that is not Completed and leaves it
\* Completed, so each is returned once in the life of a session at most;
\* respond, which is called once for every ConnectData, finds data_buf
\* empty: the assertion of start_response does not fail.
C36_HandshakeLoopBounded ==
    [][last'.op = "handle_process"
       => /\ ~panicked'
          /\ \A i \in DOMAIN last'.log :
               LET h == last'.log[i].h
                   results == last'.log[i].results
               IN  /\ Len(results) <= 3
                   /\ Times(results, "ConnectData") <= 1
                   /\ Times(results, "ResponseSent") <= 1
                   /\ Tag(h) \in {"Response", "Completed"}
                      => Times(results, "ConnectData") = 0
                   /\ Tag(h) = "Completed"
                      => Times(results, "ResponseSent") = 0
                   /\ (h \in DOMAIN connections' /\ Times(results, "ConnectData") = 1)
                      => connections'[h].request.inner.tag
                            \in {"Response", "Completed"}
                   /\ (h \in DOMAIN connections' /\ Times(results, "ResponseSent") = 1)
                      => connections'[h].request.inner.tag = "Completed"]_vars

\* one call of handle_process made three calls of update: the first returned
\* ConnectData and respond was called, the second ResponseSent, the third
\* Completed
C36_Witness ==
    /\ last.op = "handle_process"
    /\ ~panicked
    /\ build = "debug"
    /\ \E i \in DOMAIN last.log :
          /\ last.log[i].results = <<"ConnectData", "ResponseSent", "Completed">>
          /\ last.log[i].h \in DOMAIN connections
          /\ Completed(last.log[i].h)


\* the streams of a connection and its send credit
StreamsOf(c) == <<c.uni_in, c.bi, c.uni_out, c.credit>>

\* C37: a call of handle_process makes one call of update on a session whose
\* request is Completed: it returns Completed, reads, writes, opens and
\* accepts nothing on the connection's streams, and leaves session_id,
\* datagram_header and data_buf as they are.  On a session whose connection
\* is drained it makes no call of update at all.
C37_CompletedAndDrainedUntouched ==
    [][last'.op = "handle_process"
       => \A i \in DOMAIN last'.log :
            LET h == last'.log[i].h
                results == last'.log[i].results
                sess == connections[h]
            IN  /\ sess.inner.drained
                   => /\ results = <<>>
                      /\ CountOf(last'.calls, h, "update") = 0
                      /\ h \in DOMAIN connections'
                         => connections'[h].request = sess.request
                /\ (~sess.inner.drained /\ sess.request.inner.tag = "Completed")
                   => /\ results = <<"Completed">>
                      /\ CountOf(last'.calls, h, "update") = 1
                      /\ h \in DOMAIN connections'
                         => /\ connections'[h].request = sess.request
                            /\ StreamsOf(connections'[h].inner)
                                  = StreamsOf(sess.inner)]_vars

\* one call of handle_process went over a session whose request was
\* Completed, and over a session whose connection was drained
C37_Witness ==
    /\ last.op = "handle_process"
    /\ \E i \in DOMAIN last.log : \E j \in DOMAIN last.log :
          /\ last.log[i].results = <<"Completed">>
          /\ last.log[i].h \in DOMAIN connections
          /\ last.log[j].results = <<>>
          /\ last.log[j].h \notin DOMAIN connections


(***************************************************************************)
(* The simpler server (src/server): QUIC connections without the           *)
(* WebTransport handshake.  handle_recv queues a connection event under    *)
(* the handle the endpoint names, and handle_process hands the queued      *)
(* events to the connections.                                              *)
(***************************************************************************)
\* connection events that may wait in connection_events
MaxPending == 2

RECURSIVE QueuedCount(_, _)
\* the number of events queued under the handles hs
QueuedCount(queued, hs) ==
    IF hs = {} THEN 0
    ELSE LET h == CHOOSE x \in hs : TRUE
         IN  Len(queued[h]) + QueuedCount(queued, hs \ {h})

\* what endpoint.handle makes of a datagram: a new connection, an event for
\* the connection of a handle (a packet the connection will answer, or a
\* stateless reset which drains it), a response, or nothing
SimpleDatagramEvents ==
    {[k |-> "NewConnection", accept |-> a] : a \in Accepts(Handles, "simple")}
    \cup
    (IF QueuedCount(connection_events, DOMAIN connection_events) < MaxPending
        /\ Len(outbound) < MaxOutbound
     THEN UNION {{[k |-> "ConnectionEvent", handle |-> h,
                   event |-> [k |-> "Packet",
                              bytes |-> Packet(connections[h].inner, 1)]],
                  [k |-> "ConnectionEvent", handle |-> h,
                   event |-> [k |-> "Reset"]]} :
                 h \in DOMAIN connections}
     ELSE {})
    \cup
    (IF Len(outbound) < MaxOutbound
     THEN {[k |-> "Response", transmit |-> StatelessTransmit, bytes |-> <<8>>]}
     ELSE {})
    \cup {[k |-> "None"]}

\* Server::try_accept of src/server
SimpleTryAccept(map, queue, accept) ==
    IF accept.ok
    THEN [connections |-> MapInsert(map, accept.handle,
                                    [inner |-> accept.connection]),
          outbound |-> queue]
    ELSE IF IsSome(accept.response)
    THEN [connections |-> map,
          outbound |-> Push(queue, Unwrap(accept.response), accept.bytes)]
    ELSE [connections |-> map, outbound |-> queue]

\* connection_events.entry(connection_handle).or_default().push_back(event)
PushBack(queued, h, event) ==
    MapInsert(queued, h,
              Append(IF h \in DOMAIN queued THEN queued[h] ELSE <<>>, event))

\* Server::handle_recv of src/server
SimpleHandleRecv(map, queued, queue, event) ==
    LET Accepted(r) ==
            [connections |-> r.connections, connection_events |-> queued,
             outbound |-> r.outbound]
    IN  CASE event.k = "NewConnection" ->
                Accepted(SimpleTryAccept(map, queue, event.accept))
          [] event.k = "ConnectionEvent" ->
                [connections |-> map,
                 connection_events |-> PushBack(queued, event.handle, event.event),
                 outbound |-> queue]
          [] event.k = "Response" ->
                [connections |-> map, connection_events |-> queued,
                 outbound |-> Push(queue, event.transmit, event.bytes)]
          [] OTHER ->
                [connections |-> map, connection_events |-> queued,
                 outbound |-> queue]

RECURSIVE HandleEvents(_, _)
\* for event in events.drain(..) { connection.handle_event(event) }
HandleEvents(c, events) ==
    IF events = <<>> THEN c
    ELSE HandleEvents(ConnectionHandleEvent(c, Head(events)), Tail(events))

RECURSIVE DrainConnectionEvents(_, _, _, _, _)
\* for (_, mut events) in self.connection_events.drain(): the queue of every
\* handle, in the order of the hash map, is handed to the connection the
\* outer loop is at.  deliveries records what was handed to whom.
DrainConnectionEvents(c, to, queued, qorder, deliveries) ==
    IF qorder = <<>> THEN [conn |-> c, deliveries |-> deliveries]
    ELSE DrainConnectionEvents(
             HandleEvents(c, queued[Head(qorder)]), to, queued, Tail(qorder),
             deliveries \o [i \in 1..Len(queued[Head(qorder)]) |->
                               [to |-> to, from |-> Head(qorder),
                                event |-> queued[Head(qorder)][i]]])

RECURSIVE TransmitAll(_, _)
\* while let Some(transmit) = connection.poll_transmit(..): the transmit is
\* split into the outbound queue and response_buf is cleared
TransmitAll(c, queue) ==
    LET Polled(p) ==
            IF p.transmit = None THEN [conn |-> p.conn, outbound |-> queue]
            ELSE TransmitAll(p.conn, Push(queue, Unwrap(p.transmit), p.buf))
    IN  Polled(PollTransmit(c, MAX_DATAGRAMS, BufClear(<<>>)))

RECURSIVE SimpleConnections(_, _, _, _, _, _, _, _)
\* the loop over the connections in handle_process of src/server:
\* handle_timeout, the drain of connection_events, poll_endpoint_events,
\* and the transmits
SimpleConnections(order, map, queued, qorder, queue, evs, due, deliveries) ==
    LET Sent(d, t) ==
            SimpleConnections(
                Tail(order),
                [map EXCEPT ![Head(order)].inner = t.conn],
                EmptyMap, <<>>, t.outbound,
                evs \o [i \in 1..Len(d.conn.events) |->
                           <<Head(order), d.conn.events[i]>>],
                due, d.deliveries)
        Drained(d) ==
            Sent(d, TransmitAll([d.conn EXCEPT !.events = <<>>], queue))
    IN  IF order = <<>>
        THEN [connections |-> map, connection_events |-> queued,
              outbound |-> queue, events |-> evs, deliveries |-> deliveries]
        ELSE Drained(DrainConnectionEvents(
                         HandleTimeout(map[Head(order)].inner, Head(order) \in due),
                         Head(order), queued, qorder, deliveries))

\* Server::handle_process of src/server
SimpleHandleProcess(map, queued, queue, pending, order, qorder, due) ==
    LET Handled(p, d) ==
            [connections |-> d.connections,
             connection_events |-> p.connection_events, outbound |-> p.outbound,
             endpoint_events |-> <<>>, polled |-> p.events,
             deliveries |-> p.deliveries]
        Looped(p) ==
            Handled(p, DrainEndpointEvents(p.events, p.connections, <<>>, <<>>))
    IN  Looped(SimpleConnections(order, map, queued, qorder, queue, pending, due,
                                 <<>>))

\* server.handle_recv(now, meta, buf)
SimpleRecv ==
    LET Handled(event, r) ==
            /\ connections' = r.connections
            /\ connection_events' = r.connection_events
            /\ outbound' = r.outbound
            /\ last' = [Called("handle_recv", 0, event.k, <<>>) EXCEPT
                           !.arg = Some(event)]
    IN  /\ \E event \in SimpleDatagramEvents :
             Handled(event, SimpleHandleRecv(connections, connection_events,
                                             outbound, event))
        /\ buf' = BufClear(buf)
        /\ UNCHANGED <<endpoint_events, panicked, build, now, loop>>

\* server.handle_process(now): the hash maps are gone through in any order,
\* and any of the connections' timers may have expired
SimpleProcess ==
    LET Processed(due, r) ==
            /\ connections' = r.connections
            /\ connection_events' = r.connection_events
            /\ outbound' = r.outbound
            /\ endpoint_events' = r.endpoint_events
            /\ last' = [Called("handle_process", 0, "", <<>>) EXCEPT
                           !.polled = r.polled, !.delivered = r.deliveries,
                           !.due = due]
    IN  /\ \E order \in Orders(DOMAIN connections),
              qorder \in Orders(DOMAIN connection_events),
              due \in SUBSET DOMAIN connections :
             Processed(due, SimpleHandleProcess(connections, connection_events,
                                                outbound, endpoint_events, order,
                                                qorder, due))
        /\ buf' = BufClear(buf)
        /\ UNCHANGED <<panicked, build, now, loop>>

NextSimple == SimpleRecv \/ SimpleProcess \/ Outgoing

SpecSimple == Init /\ [][NextSimple]_vars

\* what the call handed to the connection of handle to from the queue of
\* handle from
HandedOver(deliveries, to, from) ==
    LET picked == SelectSeq(deliveries, LAMBDA d : d.to = to /\ d.from = from)
    IN  [i \in 1..Len(picked) |-> picked[i].event]

\* C38: every connection event which handle_recv queued under a handle is
\* handed by the next handle_process to the connection stored under that
\* handle, in the order queued, and to no other connection.
C38_DeliveredToOwner ==
    [][last'.op = "handle_process"
       => /\ \A i \in DOMAIN last'.delivered :
                last'.delivered[i].to = last'.delivered[i].from
          /\ \A h \in DOMAIN connection_events \cap DOMAIN connections :
                HandedOver(last'.delivered, h, h) = connection_events[h]]_vars


\* C39: the list of pending endpoint events is empty whenever no
\* handle_process is running: what a handle_process has polled from the
\* connections it has handed to endpoint.handle_event before it returns,
\* every event once and in the order polled.
C39_NoPendingEvents ==
    ~panicked
    => /\ endpoint_events = <<>>
       /\ last.op = "handle_process"
          => HandlesOf(last.calls, "endpoint.handle_event")
                = [i \in DOMAIN last.polled |-> last.polled[i][1]]

\* a handle_process polled the endpoint events of two connections, and none
\* is pending after it
C39_Witness ==
    /\ ~panicked
    /\ last.op = "handle_process"
    /\ Len(last.polled) >= 2
    /\ last.polled[1][1] # last.polled[2][1]
    /\ HandlesOf(last.calls, "endpoint.handle_event")
          = <<last.polled[1][1], last.polled[2][1]>>
    /\ endpoint_events = <<>>

====
